---- MODULE Spec2Model ----
(***************************************************************************)
(* Verification model of the scalable RAG system.                          *)
(*                                                                         *)
(* Part I  : admission control (app/core/rate_limiting.py) as driven by    *)
(*           the HTTP middleware (app/main.py).                            *)
(* Part II : content hashing, deduplication, upsert and ingestion          *)
(*           (app/core/deduplication.py, app/core/index_management.py,     *)
(*           app/core/vector_store.py, app/services/ingestion_service.py). *)
(* Part III: the content hash as a function of a chunk, at the three       *)
(*           places that compute it.                                       *)
(* Part IV : the Redis cache and its invalidation (app/core/cache.py).      *)
(* Part V  : the query planner (app/core/query_planner.py).                *)
(* Part VI : the query path: hybrid retrieval, reranking, answer           *)
(*           generation (app/services/query_service.py,                    *)
(*           app/core/hybrid_search.py, app/core/reranking_service.py,     *)
(*           app/core/guardrails.py).                                      *)
(* Part VII: the paths of an ingestion request                             *)
(*           (app/services/ingestion_service.py).                          *)
(* Part VIII: chunk ids (app/ingestion/chunking.py).                       *)
(* Part II also holds reindex calls running concurrently and the deletion  *)
(* of a collection (app/core/index_management.py).                         *)
(***************************************************************************)
EXTENDS Integers, Sequences, FiniteSets, TLC

(***************************************************************************)
(*                    PART I : ADMISSION CONTROL                           *)
(***************************************************************************)

\* ---- bounds of the model ------------------------------------------------
MaxReq == 3          \* number of HTTP requests in one behaviour
MaxQueueSets == 1    \* number of set_queue_depth calls in one behaviour

\* ---- inputs ------------------------------------------------------------
Clients == {"k1", "default"}     \* values of api_key in the middleware
NoHeader == "absent"             \* a request without an x-api-key header
Headers == Clients \cup {NoHeader}    \* what a request carries as x-api-key
settings_api_key == "k1"         \* settings.api_key, the key the routes accept
Scopes == {"query", "ingest"}    \* what the request's route needs
Elapsed == {0, 10, 60, 3600}     \* seconds between two readings of time.time()

NoRetry == 0 - 1                 \* retry_after = None

\* ---- program constants --------------------------------------------------
DefaultRpm == 100
DefaultRph == 1000
DefaultConcurrent == 10
DefaultBurst == 20
window_size == 60
cleanup_interval == 300
MinuteWindow == 60
HourWindow == 3600
BurstWindow == 10
max_queue_depth == 100
OverloadNum == 8                 \* overload_threshold = 0.8 = 8 / 10
OverloadDen == 10

VARIABLES
    now,                 \* the latest reading of time.time()
    api_key_quotas,      \* RateLimiter.api_key_quotas
    request_tracking,    \* RateLimiter.request_tracking : key -> deque of timestamps
    concurrent_requests, \* RateLimiter.concurrent_requests : key -> int
    queue_depths,        \* RateLimiter.queue_depths : key -> int
    last_cleanup,        \* RateLimiter.last_cleanup
    nreq,                \* HTTP requests that have entered the middleware
    qsets,               \* set_queue_depth calls so far
    handling,            \* key -> requests inside call_next
    unreleased,          \* key -> recorded requests answered without a release
    admitted,            \* history: key -> every record_request, with its time and
                         \* the number of the key's requests then in flight
    last                 \* the admission decision taken in the step just made, if any

rlvars == <<now, api_key_quotas, request_tracking, concurrent_requests,
            queue_depths, last_cleanup, nreq, qsets, handling, unreleased,
            admitted, last>>

\* ---- quotas ------------------------------------------------------------
NoQuota ==
    [present |-> FALSE, is_active |-> FALSE, rpm |-> 0, rph |-> 0,
     conc |-> 0, burst |-> 0, scopes |-> {}]

Quota(rpm, rph, conc, burst, scopes, active) ==
    [present |-> TRUE, is_active |-> active, rpm |-> rpm, rph |-> rph,
     conc |-> conc, burst |-> burst, scopes |-> scopes]

DefaultConfig ==
    [rpm |-> DefaultRpm, rph |-> DefaultRph, conc |-> DefaultConcurrent,
     burst |-> DefaultBurst, window_size |-> window_size]

\* The quota tables a deployment may register with add_api_key_quota at startup.
QuotaTables ==
    { [k \in Clients |->
          IF k = "k1" THEN Quota(2, 2, 2, 2, {"query", "ingest"}, TRUE)
                      ELSE Quota(3, 5, 1, 2, {"query"}, TRUE)],
      [k \in Clients |->
          IF k = "k1" THEN Quota(3, 4, 2, 1, {"ingest"}, TRUE)
                      ELSE NoQuota],
      [k \in Clients |->
          IF k = "k1" THEN Quota(2, 2, 1, 2, {}, FALSE)
                      ELSE Quota(2, 3, 1, 2, {"query"}, TRUE)] }

\* ---- helpers on timestamp deques ----------------------------------------
RECURSIVE PopOlder(_, _)
\* while requests and requests[0] < cutoff: requests.popleft()
PopOlder(requests, cutoff) ==
    IF requests # <<>> /\ Head(requests) < cutoff
    THEN PopOlder(Tail(requests), cutoff)
    ELSE requests

\* [req_time for req_time in requests if req_time > cutoff]
Newer(requests, cutoff) == SelectSeq(requests, LAMBDA x : x > cutoff)

RECURSIVE SumOver(_, _)
SumOver(f, S) ==
    IF S = {} THEN 0
    ELSE LET k == CHOOSE x \in S : TRUE IN f[k] + SumOver(f, S \ {k})

\* ---- RateLimiter ---------------------------------------------------------
\* _cleanup_old_data: every cleanup_interval seconds drop timestamps older
\* than one hour from every deque (empty deques are deleted, which for a
\* defaultdict is the same as an empty deque).
CleanupDue(t, lc) == ~(t - lc < cleanup_interval)

CleanupTracking(rt, t, lc) ==
    IF CleanupDue(t, lc)
    THEN [k \in Clients |-> PopOlder(rt[k], t - HourWindow)]
    ELSE rt

CleanupLast(t, lc) == IF CleanupDue(t, lc) THEN t ELSE lc

\* quota lookup of check_rate_limit: default config unless an active quota exists
UsesQuota(quotas, api_key) ==
    quotas[api_key].present /\ quotas[api_key].is_active

ConfigOf(quotas, api_key) ==
    IF UsesQuota(quotas, api_key)
    THEN [rpm |-> quotas[api_key].rpm, rph |-> quotas[api_key].rph,
          conc |-> quotas[api_key].conc, burst |-> quotas[api_key].burst,
          window_size |-> window_size]
    ELSE DefaultConfig

ScopeDenied(quotas, api_key, request_type) ==
    UsesQuota(quotas, api_key) /\ request_type \notin quotas[api_key].scopes

Deny(reason, retry) == [allowed |-> FALSE, reason |-> reason, retry_after |-> retry]
Allow == [allowed |-> TRUE, reason |-> "OK", retry_after |-> NoRetry]

\* _check_rate_limits, the deque it leaves behind
PrunedWindow(requests, config, t) == PopOlder(requests, t - config.window_size)

\* mutant: the per-minute comparison lets a request through at the limit
CheckRateLimits_MinuteAtLimit(requests, config, t) ==
    LET kept == PrunedWindow(requests, config, t)
        minute_requests == Newer(kept, t - MinuteWindow)
        hour_requests == Newer(kept, t - HourWindow)
    IN  IF Len(minute_requests) > config.rpm
        THEN Deny("Rate limit exceeded (per minute)",
                  MinuteWindow - (t - minute_requests[1]))
        ELSE IF Len(hour_requests) >= config.rph
        THEN Deny("Rate limit exceeded (per hour)",
                  HourWindow - (t - hour_requests[1]))
        ELSE Allow

\* _check_rate_limits, its verdict
CheckRateLimits(requests, config, t) ==
    LET kept == PrunedWindow(requests, config, t)
        minute_requests == Newer(kept, t - MinuteWindow)
        hour_requests == Newer(kept, t - HourWindow)
    IN  IF Len(minute_requests) >= config.rpm
        THEN Deny("Rate limit exceeded (per minute)",
                  MinuteWindow - (t - minute_requests[1]))
        ELSE IF Len(hour_requests) >= config.rph
        THEN Deny("Rate limit exceeded (per hour)",
                  HourWindow - (t - hour_requests[1]))
        ELSE Allow

\* mutant: the burst comparison lets a request through at the limit
CheckBurstLimit_AtLimit(requests, config, t) ==
    LET burst_requests == Newer(requests, t - BurstWindow)
    IN  IF Len(burst_requests) > config.burst
        THEN Deny("Burst limit exceeded", BurstWindow - (t - burst_requests[1]))
        ELSE Allow

\* _check_burst_limit
CheckBurstLimit(requests, config, t) ==
    LET burst_requests == Newer(requests, t - BurstWindow)
    IN  IF Len(burst_requests) >= config.burst
        THEN Deny("Burst limit exceeded", BurstWindow - (t - burst_requests[1]))
        ELSE Allow

\* check_rate_limit reaches _check_rate_limits (and so prunes the deque)
ReachesWindow(quotas, conc, api_key, request_type) ==
    /\ ~ScopeDenied(quotas, api_key, request_type)
    /\ ~(conc[api_key] >= ConfigOf(quotas, api_key).conc)

\* mutant: the concurrency comparison lets a request through at the limit
CheckRateLimit_ConcurrencyAtLimit(quotas, rt, conc, api_key, request_type, t) ==
    LET config == ConfigOf(quotas, api_key)
        rate_check == CheckRateLimits(rt[api_key], config, t)
        burst_check == CheckBurstLimit(PrunedWindow(rt[api_key], config, t), config, t)
    IN  IF ScopeDenied(quotas, api_key, request_type)
        THEN Deny("Insufficient scope", NoRetry)
        ELSE IF conc[api_key] > config.conc
        THEN Deny("Too many concurrent requests", 1)
        ELSE IF ~rate_check.allowed THEN rate_check
        ELSE IF ~burst_check.allowed THEN burst_check
        ELSE Allow

\* check_rate_limit, its verdict; rt is the tracking after _cleanup_old_data
CheckRateLimit(quotas, rt, conc, api_key, request_type, t) ==
    LET config == ConfigOf(quotas, api_key)
        rate_check == CheckRateLimits(rt[api_key], config, t)
        burst_check == CheckBurstLimit(PrunedWindow(rt[api_key], config, t), config, t)
    IN  IF ScopeDenied(quotas, api_key, request_type)
        THEN Deny("Insufficient scope", NoRetry)
        ELSE IF conc[api_key] >= config.conc
        THEN Deny("Too many concurrent requests", 1)
        ELSE IF ~rate_check.allowed THEN rate_check
        ELSE IF ~burst_check.allowed THEN burst_check
        ELSE Allow

\* mutant: the check itself appends the request's timestamp to the window
TrackingAfterCheck_RecordsChecked(quotas, rt, conc, api_key, request_type, t) ==
    IF ReachesWindow(quotas, conc, api_key, request_type)
    THEN [rt EXCEPT ![api_key] =
             Append(PrunedWindow(rt[api_key], ConfigOf(quotas, api_key), t), t)]
    ELSE rt

\* check_rate_limit, the tracking it leaves behind
TrackingAfterCheck(quotas, rt, conc, api_key, request_type, t) ==
    IF ReachesWindow(quotas, conc, api_key, request_type)
    THEN [rt EXCEPT ![api_key] = PrunedWindow(rt[api_key], ConfigOf(quotas, api_key), t)]
    ELSE rt

\* ---- BackpressureController ------------------------------------------------
\* should_accept_request calls check_rate_limit(api_key): request_type keeps
\* its default "query".
MiddlewareRequestType == "query"

ShouldAcceptRequest(quotas, rt, conc, qd, api_key, t) ==
    LET rate_check == CheckRateLimit(quotas, rt, conc, api_key, MiddlewareRequestType, t)
        total_concurrent == SumOver(conc, Clients)
        total_capacity == SumOver([k \in Clients |-> quotas[k].conc],
                                  {k \in Clients : quotas[k].present})
    IN  IF ~rate_check.allowed THEN rate_check
        ELSE IF qd[api_key] >= max_queue_depth
        THEN Deny("Queue depth limit exceeded", 5)
        ELSE IF total_capacity > 0
                /\ OverloadDen * total_concurrent >= OverloadNum * total_capacity
        THEN Deny("System overload", 10)
        ELSE Allow

\* ---- the routes' authentication ----------------------------------------------
\* request.headers.get("x-api-key", "default")
ApiKeyOf(header) == IF header = NoHeader THEN "default" ELSE header

Authenticated == [status |-> 0, detail |-> "OK"]

\* mutant: a request without the header is let through
verify_api_key_MissingAllowed(header) ==
    IF header = NoHeader THEN Authenticated
    ELSE IF header # settings_api_key
    THEN [status |-> 401, detail |-> "Invalid API key"]
    ELSE Authenticated

\* verify_api_key, the dependency of every /query/ and /ingest/ route
verify_api_key(header) ==
    IF header = NoHeader
    THEN [status |-> 401, detail |-> "Missing API key"]
    ELSE IF header # settings_api_key
    THEN [status |-> 401, detail |-> "Invalid API key"]
    ELSE Authenticated

\* ---- the middleware ------------------------------------------------------
NoDecision ==
    [client |-> "none", header |-> "none", scope |-> "query", t |-> 0,
     allowed |-> FALSE, reason |-> "none", retry_after |-> NoRetry, status |-> 0,
     served |-> FALSE, seen |-> 0, inflight_before |-> 0]

\* security_and_logging_middleware up to `await call_next(request)` and the
\* route's dependency verify_api_key: backpressure check, record_request,
\* request-size validation, authentication.  Nothing in this stretch suspends
\* the task, so it is one step.  `elapsed` is the time that has passed since
\* the previous request entered; status 0 stands for a request handed to the
\* route's service.
MiddlewareEnter(header, scope, tooLarge, elapsed) ==
    /\ nreq < MaxReq
    /\ \E api_key \in {ApiKeyOf(header)} :
       \E auth \in {verify_api_key(header)} :
       \E t \in {now + elapsed} :
       \E rt1 \in {CleanupTracking(request_tracking, t, last_cleanup)} :
       \E check \in {ShouldAcceptRequest(api_key_quotas, rt1, concurrent_requests,
                                         queue_depths, api_key, t)} :
       \E rt2 \in {TrackingAfterCheck(api_key_quotas, rt1, concurrent_requests,
                                      api_key, MiddlewareRequestType, t)} :
          /\ nreq' = nreq + 1
          /\ now' = t
          /\ last_cleanup' = CleanupLast(t, last_cleanup)
          /\ last' = [client |-> api_key, header |-> header, scope |-> scope,
                      t |-> t,
                      allowed |-> check.allowed, reason |-> check.reason,
                      retry_after |-> check.retry_after,
                      status |-> IF ~check.allowed THEN 429
                                 ELSE IF tooLarge THEN 413 ELSE auth.status,
                      served |-> check.allowed /\ ~tooLarge /\ auth = Authenticated,
                      seen |-> Len(admitted[api_key]),
                      inflight_before |-> handling[api_key] + unreleased[api_key]]
          /\ IF check.allowed
             THEN \* record_request
                  /\ request_tracking' = [rt2 EXCEPT ![api_key] = Append(@, t)]
                  /\ concurrent_requests' =
                         [concurrent_requests EXCEPT ![api_key] = @ + 1]
                  /\ admitted' = [admitted EXCEPT ![api_key] =
                         Append(@, [t |-> t,
                                    before |-> handling[api_key] + unreleased[api_key]])]
                  /\ IF tooLarge
                     THEN \* the 413 response is returned before the try/finally
                          /\ unreleased' = [unreleased EXCEPT ![api_key] = @ + 1]
                          /\ UNCHANGED handling
                     ELSE /\ handling' = [handling EXCEPT ![api_key] = @ + 1]
                          /\ UNCHANGED unreleased
             ELSE /\ request_tracking' = rt2
                  /\ UNCHANGED <<concurrent_requests, admitted, handling, unreleased>>
          /\ UNCHANGED <<api_key_quotas, queue_depths, qsets>>

\* mutant: the guard of release_request is off by one
ReleaseRequest_GuardOffByOne(conc, api_key) ==
    IF conc[api_key] > 1 THEN [conc EXCEPT ![api_key] = @ - 1] ELSE conc

\* release_request
ReleaseRequest(conc, api_key) ==
    IF conc[api_key] > 0 THEN [conc EXCEPT ![api_key] = @ - 1] ELSE conc

\* security_and_logging_middleware from the return (or raise) of call_next:
\* the response or the 500 is returned and the finally block releases.
MiddlewareExit(api_key, raised) ==
    /\ handling[api_key] > 0
    /\ handling' = [handling EXCEPT ![api_key] = @ - 1]
    /\ concurrent_requests' = ReleaseRequest(concurrent_requests, api_key)
    /\ UNCHANGED <<now, api_key_quotas, request_tracking, queue_depths,
                   last_cleanup, admitted, unreleased, nreq, qsets>>
    /\ last' = NoDecision

\* set_queue_depth
SetQueueDepth(api_key, depth) ==
    /\ qsets < MaxQueueSets
    /\ queue_depths[api_key] # depth
    /\ qsets' = qsets + 1
    /\ queue_depths' = [queue_depths EXCEPT ![api_key] = depth]
    /\ UNCHANGED <<now, api_key_quotas, request_tracking,
                   concurrent_requests, last_cleanup, admitted, handling,
                   unreleased, nreq>>
    /\ last' = NoDecision

(***************************************************************************)
(*                 Claims about the admission controller                   *)
(***************************************************************************)

\* a decision has just been taken
Decided == last.client \in Clients

\* the configuration the decision was taken under
LastConfig == ConfigOf(api_key_quotas, last.client)

\* admissions of the deciding client that lay inside the window when the
\* decision was taken, oldest first (from the history, not from the deque)
AdmittedWithin(window) ==
    LET earlier == SubSeq(admitted[last.client], 1, last.seen)
        inside == SelectSeq(earlier, LAMBDA a : a.t > last.t - window)
    IN  [i \in 1..Len(inside) |-> inside[i].t]

\* the earlier checks (scope, concurrency) let the decision through
LastPassedConcurrency ==
    /\ ~ScopeDenied(api_key_quotas, last.client, MiddlewareRequestType)
    /\ last.inflight_before < LastConfig.conc

\* C1: every admission raises the client's in-flight count by one and every
\* release lowers it by one: the count always equals the number of admitted
\* requests not yet released, and is never negative.
C1_InFlightCountsUnreleased ==
    \A k \in Clients :
        /\ concurrent_requests[k] = handling[k] + unreleased[k]
        /\ concurrent_requests[k] >= 0

\* C1 witness: a client with two admissions of which one has been released
C1_Witness ==
    \E k \in Clients :
        /\ Len(admitted[k]) = 2
        /\ handling[k] = 1
        /\ unreleased[k] = 0
        /\ concurrent_requests[k] = 1

\* C2: whatever the interleaving of requests in the middleware, a client's
\* in-flight count never exceeds its max_concurrent, and a request arriving
\* while in_flight >= max_concurrent is denied with the concurrency reason
\* and retry_after 1.
C2_ConcurrencyBounded ==
    /\ \A k \in Clients :
          concurrent_requests[k] <= ConfigOf(api_key_quotas, k).conc
    /\ (Decided /\ last.inflight_before >= LastConfig.conc)
          => /\ ~last.allowed
             /\ last.reason = "Too many concurrent requests"
             /\ last.retry_after = 1
             /\ last.status = 429

\* C2 witness: a request arrived while the client was at its limit
C2_Witness ==
    /\ Decided
    /\ last.inflight_before >= LastConfig.conc
    /\ handling[last.client] >= 1
    /\ ~last.allowed

\* C3 (as claimed): a client is never admitted when it already has rph or
\* more admitted requests in the preceding 3600 seconds.
C3_HourlyLimitEnforced ==
    (Decided /\ Len(AdmittedWithin(HourWindow)) >= LastConfig.rph)
        => ~last.allowed

\* C4 (as claimed): a client with rpm or more admissions in the preceding
\* 60 seconds is not admitted, and the denial carries the per-minute reason
\* and a positive retry_after, the time until the oldest of them ages out.
C4_Original ==
    (Decided /\ Len(AdmittedWithin(MinuteWindow)) >= LastConfig.rpm)
        => /\ ~last.allowed
           /\ last.reason = "Rate limit exceeded (per minute)"
           /\ last.retry_after = MinuteWindow - (last.t - AdmittedWithin(MinuteWindow)[1])
           /\ last.retry_after > 0

\* C4 (amended): a client with rpm or more admissions in the preceding 60
\* seconds is not admitted; when the scope and concurrency checks, which come
\* first, pass, the denial carries the per-minute reason and a positive
\* retry_after, the time until the oldest of them ages out.
C4_MinuteLimitEnforced ==
    (Decided /\ Len(AdmittedWithin(MinuteWindow)) >= LastConfig.rpm)
        => /\ ~last.allowed
           /\ last.status = 429
           /\ LastPassedConcurrency
                => /\ last.reason = "Rate limit exceeded (per minute)"
                   /\ last.retry_after =
                         MinuteWindow - (last.t - AdmittedWithin(MinuteWindow)[1])
                   /\ last.retry_after > 0

\* C4 witness: a per-minute denial
C4_Witness ==
    /\ Decided
    /\ Len(AdmittedWithin(MinuteWindow)) >= LastConfig.rpm
    /\ LastPassedConcurrency
    /\ last.reason = "Rate limit exceeded (per minute)"

\* the deciding client's requests are sequential: each was released before
\* the next one arrived
LastSequential ==
    /\ last.inflight_before = 0
    /\ \A i \in 1..last.seen : admitted[last.client][i].before = 0

\* C5 (as claimed): for sequential requests, once `burst` admissions lie in
\* the last 10 seconds every further request is denied with the burst reason
\* and retry_after > 0, and nothing is admitted beyond `burst` per window.
C5_Original ==
    (Decided /\ LastSequential)
        => /\ Len(AdmittedWithin(BurstWindow)) >= LastConfig.burst
                => /\ ~last.allowed
                   /\ last.reason = "Burst limit exceeded"
                   /\ last.retry_after > 0
           /\ last.allowed => Len(AdmittedWithin(BurstWindow)) < LastConfig.burst

\* C5 (amended): for sequential requests, at most `burst` are admitted in any
\* 10-second window: once `burst` admissions lie in the last 10 seconds every
\* further request is denied with retry_after > 0, with the burst reason
\* unless the per-minute or per-hour check, which come first, denies it; a
\* request is admitted only when fewer than `burst` admissions lie in the
\* last 10 seconds.
C5_BurstLimitEnforced ==
    (Decided /\ LastSequential)
        => /\ Len(AdmittedWithin(BurstWindow)) >= LastConfig.burst
                => /\ ~last.allowed
                   /\ last.status = 429
                   /\ last.retry_after > 0
                   /\ last.reason \in {"Burst limit exceeded",
                                       "Rate limit exceeded (per minute)",
                                       "Rate limit exceeded (per hour)"}
                   /\ (/\ Len(AdmittedWithin(MinuteWindow)) < LastConfig.rpm
                       /\ Len(AdmittedWithin(HourWindow)) < LastConfig.rph)
                         => last.reason = "Burst limit exceeded"
           /\ last.allowed => Len(AdmittedWithin(BurstWindow)) < LastConfig.burst

\* C5 witness: a sequential request denied by the burst check
C5_Witness ==
    /\ Decided
    /\ LastSequential
    /\ Len(AdmittedWithin(BurstWindow)) >= LastConfig.burst
    /\ last.reason = "Burst limit exceeded"

\* C6 (as claimed): a request whose scope is not among the client's
\* configured scopes is denied as scope-denied and never admitted.
C6_ScopeEnforced ==
    (Decided /\ UsesQuota(api_key_quotas, last.client)
             /\ last.scope \notin api_key_quotas[last.client].scopes)
        => /\ ~last.allowed
           /\ last.reason = "Insufficient scope"

GlobalOverload ==
    LET total_capacity == SumOver([k \in Clients |-> api_key_quotas[k].conc],
                                  {k \in Clients : api_key_quotas[k].present})
    IN  /\ total_capacity > 0
        /\ OverloadDen * SumOver(concurrent_requests, Clients)
               >= OverloadNum * total_capacity

\* C24: a denial carries the reason of the first failing check in the order
\* scope, concurrency, rpm, rph, burst, system overload, queue full: a request
\* that passes the rate checks while the global load is at the threshold and
\* its client's queue is full is denied as system overload, retry_after 10.
C24_OverloadBeforeQueueFull ==
    ( /\ Decided
      /\ last.reason \in {"System overload", "Queue depth limit exceeded"}
      /\ GlobalOverload
      /\ queue_depths[last.client] >= max_queue_depth )
    => /\ last.reason = "System overload"
       /\ last.retry_after = 10

\* C28: every recorded request is released exactly once before its response
\* is returned: when no request is inside the middleware any more, every
\* client's in-flight count is 0.
C28_AllReleasedWhenFinished ==
    (\A k \in Clients : handling[k] = 0)
        => \A k \in Clients : concurrent_requests[k] = 0

\* every timestamp of `after` is one of `before`, in the same order
IsSuffix(after, before) ==
    \E n \in 0..Len(before) : after = SubSeq(before, n + 1, Len(before))

\* C29: a denied admission check consumes no quota: the step appends no
\* timestamp to any client's window and changes no client's in-flight count.
C29_DeniedConsumesNothing ==
    [][ (nreq' = nreq + 1 /\ ~last'.allowed)
            => /\ concurrent_requests' = concurrent_requests
               /\ \A k \in Clients :
                     IsSuffix(request_tracking'[k], request_tracking[k]) ]_rlvars

\* C29 witness: a request of a client with an admitted request in its window
\* and in flight has been denied
C29_Witness ==
    /\ Decided
    /\ ~last.allowed
    /\ last.status = 429
    /\ request_tracking[last.client] # <<>>
    /\ concurrent_requests[last.client] > 0


(***************************************************************************)
(*        PART II : CONTENT HASH, DEDUPLICATION, UPSERT, INGESTION         *)
(***************************************************************************)

\* ---- bounds of the model ------------------------------------------------
MaxOps == 2          \* number of index operations in one behaviour
MaxBatch == 2        \* number of documents in one upsert call

\* ---- inputs ------------------------------------------------------------
Collections == {"c1", "c2"}
Sources == {"a.md", "b.md"}

\* Texts are sequences of characters.
LowerOf == [c \in {"a", "b", "A", "B", " ", "!"} |->
               IF c = "A" THEN "a" ELSE IF c = "B" THEN "b" ELSE c]
IsSpace(c) == c = " "
IsWordChar(c) == c \in {"a", "b", "A", "B"}

\* the documents a caller may hand to the indexer (content, source, chunk_index)
DocInput(content, source, chunk_index) ==
    [content |-> content, source |-> source, chunk_index |-> chunk_index]

DocInputs ==
    { DocInput(<<"a">>, "a.md", 0),
      DocInput(<<"A", "!">>, "a.md", 0),
      DocInput(<<"b", " ", "a">>, "a.md", 1) }

Batches == UNION { [1..n -> DocInputs] : n \in 1..MaxBatch }

\* the files the ingest pipeline may be given, already split by the text splitter
FileChunks ==
    [f \in Sources |->
        IF f = "a.md" THEN << <<"a">>, <<"b", " ", "a">> >> ELSE << <<"a">> >>]

\* how the vector store behind VectorStoreManager treats an add of an id that
\* the collection already holds: Chroma skips it or rejects the call
\* (depending on its version), Pinecone overwrites.
Backends == {"chroma-skip", "chroma-reject", "pinecone"}

VARIABLES
    backend,             \* settings.vector_db_provider and the store's behaviour
    utc,                 \* the latest reading of datetime.utcnow()
    processed_hashes,    \* DeduplicationService.processed_hashes
    hash_to_doc_id,      \* DeduplicationService.hash_to_doc_id
    store,               \* the vector store: set of [col, id, doc]
    hist                 \* the results returned by the operations so far

idxvars == <<backend, utc, processed_hashes, hash_to_doc_id, store, hist>>

\* ---- Fingerprinting -------------------------------------------------------
None == <<>>                \* an absent metadata key
Some(v) == <<v>>

RECURSIVE SplitJoin(_, _, _)
\* ' '.join(text.split()): runs of whitespace become one space, none at the ends
SplitJoin(text, acc, pending) ==
    IF text = <<>> THEN acc
    ELSE IF IsSpace(Head(text))
         THEN SplitJoin(Tail(text), acc, acc # <<>>)
         ELSE SplitJoin(Tail(text),
                        (IF pending THEN Append(acc, " ") ELSE acc) \o <<Head(text)>>,
                        FALSE)

RECURSIVE Strip(_)
\* text.strip()
Strip(text) ==
    IF text = <<>> THEN text
    ELSE IF IsSpace(Head(text)) THEN Strip(Tail(text))
    ELSE IF IsSpace(text[Len(text)]) THEN Strip(SubSeq(text, 1, Len(text) - 1))
    ELSE text

\* normalize_text: collapse whitespace, lowercase, drop punctuation, strip
normalize_text(text) ==
    LET joined == SplitJoin(text, <<>>, FALSE)
        lowered == [i \in 1..Len(joined) |-> LowerOf[joined[i]]]
        kept == SelectSeq(lowered, LAMBDA c : IsWordChar(c) \/ IsSpace(c))
    IN  Strip(kept)

\* SHA-256 is modelled as injective: a digest is the pair it was computed from.
\* str(sorted(metadata.items())) lists every key of the metadata.
Sha256(text, metadata) == [text |-> text, meta |-> metadata]

\* DeduplicationService.compute_content_hash
compute_content_hash(document) ==
    Sha256(normalize_text(document.page_content), document.metadata)

\* IndexManager._compute_content_hash: the raw text, not the normalized one
IndexManagerContentHash(document) ==
    Sha256(document.page_content, document.metadata)

\* SectionAwareChunker._compute_content_hash
ChunkerContentHash(document) ==
    Sha256(normalize_text(document.page_content), document.metadata)

\* ---- DeduplicationService ---------------------------------------------------
\* is_duplicate
is_duplicate(hashes, document) == compute_content_hash(document) \in hashes

\* deduplicate_documents: every document is looked up in the registry as it
\* stood before the call
UniqueDocs(hashes, documents) ==
    SelectSeq(documents, LAMBDA d : ~is_duplicate(hashes, d))

DuplicateDocs(hashes, documents) ==
    SelectSeq(documents, LAMBDA d : is_duplicate(hashes, d))

\* the id upsert_documents and the vector store derive for a document
DocId(document) == <<document.metadata.source, document.metadata.chunk_index>>

RECURSIVE AddDocuments(_, _)
\* add_document for each unique document in turn: [hashes, ids]
AddDocuments(reg, documents) ==
    IF documents = <<>> THEN reg
    ELSE LET d == Head(documents)
             h == compute_content_hash(d)
             next == IF h \in reg.hashes THEN reg
                     ELSE [hashes |-> reg.hashes \cup {h},
                           ids |-> reg.ids \cup {[hash |-> h, doc_id |-> DocId(d)]}]
         IN  AddDocuments(next, Tail(documents))

\* ---- VectorStoreManager -------------------------------------------------------
\* ids within one store: Chroma keeps one id space per collection, Pinecone
\* prefixes the collection name
Ids(documents) == [i \in 1..Len(documents) |-> DocId(documents[i])]

HasRepeatedId(documents) ==
    \E i, j \in 1..Len(documents) : i # j /\ DocId(documents[i]) = DocId(documents[j])

Holds(st, col, id) == \E e \in st : e.col = col /\ e.id = id

RECURSIVE PutAll(_, _, _, _)
\* write the documents one after the other; overwrite decides what happens to
\* an id already present
PutAll(st, col, documents, overwrite) ==
    IF documents = <<>> THEN st
    ELSE LET d == Head(documents)
             e == [col |-> col, id |-> DocId(d), doc |-> d]
             st1 == IF Holds(st, col, e.id)
                    THEN IF overwrite
                         THEN {x \in st : ~(x.col = col /\ x.id = e.id)} \cup {e}
                         ELSE st
                    ELSE st \cup {e}
         IN  PutAll(st1, col, Tail(documents), overwrite)

\* add_documents raises (after its retries) rather than returning True
AddRaises(be, st, col, documents, storeUp) ==
    \/ ~storeUp
    \/ be # "pinecone" /\ HasRepeatedId(documents)
    \/ be = "chroma-reject" /\ \E i \in 1..Len(documents) : Holds(st, col, DocId(documents[i]))

\* add_documents, the store it leaves behind
StoreAfterAdd(be, st, col, documents, storeUp) ==
    IF AddRaises(be, st, col, documents, storeUp) THEN st
    ELSE PutAll(st, col, documents, be = "pinecone")

\* get_collection_info()["total_vectors"]: Chroma counts the collection,
\* Pinecone reports the whole index
TotalVectors(be, st, col) ==
    IF be = "pinecone" THEN Cardinality(st)
    ELSE Cardinality({e \in st : e.col = col})

\* ---- UpsertService -----------------------------------------------------------
\* upsert_documents: [hashes, ids, store, unique, duplicate, upserted, errors, written]
upsert_documents(be, reg, st, col, documents, storeUp) ==
    LET unique_docs == UniqueDocs(reg.hashes, documents)
        duplicate_docs == DuplicateDocs(reg.hashes, documents)
    IN  IF unique_docs = <<>>
        THEN [hashes |-> reg.hashes, ids |-> reg.ids, store |-> st,
              unique |-> 0, duplicate |-> Len(duplicate_docs),
              upserted |-> 0, errors |-> 0, written |-> 0]
        ELSE LET reg1 == AddDocuments(reg, unique_docs)
                 raised == AddRaises(be, st, col, unique_docs, storeUp)
                 st1 == StoreAfterAdd(be, st, col, unique_docs, storeUp)
             IN  [hashes |-> reg1.hashes, ids |-> reg1.ids, store |-> st1,
                  unique |-> Len(unique_docs), duplicate |-> Len(duplicate_docs),
                  upserted |-> IF raised THEN 0 ELSE Len(unique_docs),
                  errors |-> IF raised THEN 1 ELSE 0,
                  written |-> Len(unique_docs)]

\* ---- IndexManager --------------------------------------------------------------
\* the Document idempotent_upsert builds from an input dict at time t
DocObject(doc, t) ==
    [page_content |-> doc.content,
     metadata |-> [source |-> doc.source, chunk_index |-> doc.chunk_index,
                   created_at |-> Some(t), content_hash |-> None,
                   embedding |-> None]]

\* the document with its content hash attached to the metadata
WithContentHash(document) ==
    [document EXCEPT !.metadata.content_hash = Some(IndexManagerContentHash(document))]

\* the readings of datetime.utcnow() for the documents of a batch: the first
\* is `start`, each later one is the one before plus its advance
RECURSIVE Readings(_, _)
Readings(start, advances) ==
    IF advances = <<>> THEN <<>>
    ELSE <<start + Head(advances)>> \o Readings(start + Head(advances), Tail(advances))

\* what upsert_documents answers when idempotent_upsert does not call it
NothingToUpsert(reg, st) ==
    [hashes |-> reg.hashes, ids |-> reg.ids, store |-> st,
     unique |-> 0, duplicate |-> 0, upserted |-> 0, errors |-> 0, written |-> 0]

\* the body of idempotent_upsert: the documents it keeps, the ones it skips
\* and the answer of upsert_documents
idempotent_upsert(be, reg, st, col, documents, times, storeUp) ==
    LET objs == [i \in 1..Len(documents) |-> DocObject(documents[i], times[i])]
        skipped_docs == SelectSeq(objs, LAMBDA d : is_duplicate(reg.hashes, d))
        fresh == SelectSeq(objs, LAMBDA d : ~is_duplicate(reg.hashes, d))
        processed_docs == [i \in 1..Len(fresh) |-> WithContentHash(fresh[i])]
    IN  [processed |-> Len(processed_docs), skipped |-> Len(skipped_docs),
         up |-> IF processed_docs # <<>>
                THEN upsert_documents(be, reg, st, col, processed_docs, storeUp)
                ELSE NothingToUpsert(reg, st)]

\* IndexManager.idempotent_upsert
IdempotentUpsert(col, documents, advances, storeUp) ==
    /\ Len(hist) < MaxOps
    /\ Len(advances) = Len(documents)
    /\ \E times \in {Readings(utc, advances)} :
       \E r \in {idempotent_upsert(backend,
                     [hashes |-> processed_hashes, ids |-> hash_to_doc_id],
                     store, col, documents, times, storeUp)} :
          /\ utc' = times[Len(times)]
          /\ processed_hashes' = r.up.hashes
          /\ hash_to_doc_id' = r.up.ids
          /\ store' = r.up.store
          /\ hist' = Append(hist,
                 [op |-> "idempotent_upsert", col |-> col, docs |-> documents,
                  success |-> TRUE, total |-> Len(documents),
                  processed |-> r.processed, skipped |-> r.skipped,
                  unique |-> r.up.unique, duplicate |-> r.up.duplicate,
                  upserted |-> r.up.upserted, errors |-> r.up.errors,
                  written |-> r.up.written, chunks_created |-> 0,
                  store_up |-> storeUp,
                  count_before |-> TotalVectors(backend, store, col),
                  count_after |-> TotalVectors(backend, r.up.store, col)])
          /\ UNCHANGED backend

\* a Document as a caller of UpsertService holds it: no created_at, no hash
PlainDocument(doc) ==
    [page_content |-> doc.content,
     metadata |-> [source |-> doc.source, chunk_index |-> doc.chunk_index,
                   created_at |-> None, content_hash |-> None,
                   embedding |-> None]]

\* UpsertService.upsert_documents called on its own
UpsertDocumentsCall(col, documents, storeUp) ==
    /\ \E up \in {upsert_documents(backend,
                      [hashes |-> processed_hashes, ids |-> hash_to_doc_id],
                      store, col,
                      [i \in 1..Len(documents) |-> PlainDocument(documents[i])],
                      storeUp)} :
          /\ processed_hashes' = up.hashes
          /\ hash_to_doc_id' = up.ids
          /\ store' = up.store
          /\ hist' = Append(hist,
                 [op |-> "upsert_documents", col |-> col, docs |-> documents,
                  success |-> up.errors = 0, total |-> Len(documents),
                  processed |-> 0, skipped |-> 0,
                  unique |-> up.unique, duplicate |-> up.duplicate,
                  upserted |-> up.upserted, errors |-> up.errors,
                  written |-> up.written, chunks_created |-> 0,
                  store_up |-> storeUp,
                  count_before |-> TotalVectors(backend, store, col),
                  count_after |-> TotalVectors(backend, up.store, col)])
          /\ UNCHANGED <<backend, utc>>

\* the same call as one of the operations of a bounded behaviour
UpsertDocuments(col, documents, storeUp) ==
    /\ Len(hist) < MaxOps
    /\ UpsertDocumentsCall(col, documents, storeUp)

\* ---- IngestionService ------------------------------------------------------------
\* DocumentProcessor._split_text followed by embed_documents_async: one
\* Document per chunk of the file, with the embedding in its metadata
EmbeddedChunks(file) ==
    [i \in 1..Len(FileChunks[file]) |->
        [page_content |-> FileChunks[file][i],
         metadata |-> [source |-> file, chunk_index |-> i - 1,
                       created_at |-> None, content_hash |-> None,
                       embedding |-> Some("vector")]]]

\* the input documents a file stands for
FileDocs(file) ==
    [i \in 1..Len(FileChunks[file]) |-> DocInput(FileChunks[file][i], file, i - 1)]

\* the body of ingest_documents for one valid file
ingest_documents(be, st, col, file, embedUp, storeUp) ==
    LET embedded_documents == EmbeddedChunks(file)
        raised == embedUp /\ AddRaises(be, st, col, embedded_documents, storeUp)
    IN  [success |-> embedUp /\ ~raised,
         errors |-> IF embedUp /\ ~raised THEN 0 ELSE 1,
         chunks_created |-> IF embedUp THEN Len(embedded_documents) ELSE 0,
         store |-> IF embedUp
                   THEN StoreAfterAdd(be, st, col, embedded_documents, storeUp)
                   ELSE st]

\* IngestionService.ingest_documents; embedUp / storeUp: the embedding
\* endpoint / the vector store answer (after their retries)
IngestDocuments(col, file, embedUp, storeUp) ==
    /\ Len(hist) < MaxOps
    /\ \E r \in {ingest_documents(backend, store, col, file, embedUp, storeUp)} :
          /\ store' = r.store
          /\ hist' = Append(hist,
                 [op |-> "ingest_documents", col |-> col, docs |-> FileDocs(file),
                  success |-> r.success, total |-> 1,
                  processed |-> 1, skipped |-> 0, unique |-> 0, duplicate |-> 0,
                  upserted |-> 0, errors |-> r.errors,
                  written |-> r.chunks_created,
                  chunks_created |-> r.chunks_created,
                  store_up |-> storeUp,
                  count_before |-> TotalVectors(backend, store, col),
                  count_after |-> TotalVectors(backend, r.store, col)])
          /\ UNCHANGED <<backend, utc, processed_hashes, hash_to_doc_id>>

\* ---- IndexManager: delete and reindex -----------------------------------------
\* _get_documents_by_source: the lookup is not implemented and answers []
GetDocumentsBySource(st, col, source) == <<>>

\* delete_by_source: with no document found nothing is deleted, neither from
\* the store nor from the registry
delete_by_source(reg, st, col, source) ==
    LET documents_to_delete == GetDocumentsBySource(st, col, source)
    IN  IF documents_to_delete = <<>>
        THEN [success |-> TRUE, deleted |-> 0, hashes |-> reg.hashes,
              ids |-> reg.ids, store |-> st]
        ELSE [success |-> TRUE, deleted |-> Len(documents_to_delete),
              hashes |-> reg.hashes \ { compute_content_hash(documents_to_delete[i]) :
                                           i \in 1..Len(documents_to_delete) },
              ids |-> { e \in reg.ids :
                          \A i \in 1..Len(documents_to_delete) :
                              e.hash # compute_content_hash(documents_to_delete[i]) },
              store |-> st]

\* IndexManager.reindex_document: delete_by_source, then idempotent_upsert
ReindexDocument(col, source, new_documents, advances, storeUp) ==
    /\ Len(hist) < MaxOps
    /\ Len(advances) = Len(new_documents)
    /\ \A i \in 1..Len(new_documents) : new_documents[i].source = source
    /\ \E times \in {Readings(utc, advances)} :
       \E del \in {delete_by_source([hashes |-> processed_hashes,
                                     ids |-> hash_to_doc_id], store, col, source)} :
       \E r \in {idempotent_upsert(backend, [hashes |-> del.hashes, ids |-> del.ids],
                                   del.store, col, new_documents, times, storeUp)} :
          /\ utc' = times[Len(times)]
          /\ processed_hashes' = r.up.hashes
          /\ hash_to_doc_id' = r.up.ids
          /\ store' = r.up.store
          /\ hist' = Append(hist,
                 [op |-> "reindex_document", col |-> col, docs |-> new_documents,
                  success |-> del.success, total |-> Len(new_documents),
                  processed |-> r.processed, skipped |-> r.skipped,
                  unique |-> r.up.unique, duplicate |-> r.up.duplicate,
                  upserted |-> r.up.upserted, errors |-> r.up.errors,
                  written |-> r.up.written, chunks_created |-> 0,
                  store_up |-> storeUp,
                  count_before |-> TotalVectors(backend, store, col),
                  count_after |-> TotalVectors(backend, r.up.store, col)])
          /\ UNCHANGED backend

\* ---- IndexManager: reindex calls running concurrently -----------------------------
\* A reindex_document call runs without suspension through delete_by_source
\* (its lookup does no I/O), the classification and registration of its
\* documents and the first add_documents attempt.  It is suspended while
\* tenacity sleeps before another attempt and while the cache invalidation
\* that follows a successful write waits for Redis; other calls run then.
stop_after_attempt == 3      \* attempts of add_documents

ReindexCalls == {"r1", "r2"}
ReindexCol == "c1"
ReindexSource == "a.md"
ReindexBatches ==
    { b \in Batches : \A i \in 1..Len(b) : b[i].source = ReindexSource }

VARIABLES
    calls                \* call -> where it stands, its documents, what it still
                         \* has to write, the attempts made, whether it began
                         \* while another call was between its phases

reindexvars == <<calls>>

ReadyCall(documents) ==
    [pc |-> "ready", docs |-> documents, pending |-> <<>>, attempts |-> 0,
     overlapped |-> FALSE, indexed |-> 0]

\* the documents upsert_documents hands to add_documents
PendingWrite(reg, documents, times) ==
    LET objs == [i \in 1..Len(documents) |-> DocObject(documents[i], times[i])]
        fresh == SelectSeq(objs, LAMBDA d : ~is_duplicate(reg.hashes, d))
    IN  UniqueDocs(reg.hashes, [i \in 1..Len(fresh) |-> WithContentHash(fresh[i])])

\* a call is between its first step and its return
InProgress(c) == calls[c].pc \in {"retrying", "invalidating"}

\* reindex_document from its start to its first suspension
ReindexBegin(c, storeUp) ==
    /\ calls[c].pc = "ready"
    /\ \E times \in {Readings(utc, [i \in 1..Len(calls[c].docs) |-> 1])} :
       \E del \in {delete_by_source([hashes |-> processed_hashes,
                                     ids |-> hash_to_doc_id], store, ReindexCol,
                                    ReindexSource)} :
       \E r \in {idempotent_upsert(backend, [hashes |-> del.hashes, ids |-> del.ids],
                                   del.store, ReindexCol, calls[c].docs, times,
                                   storeUp)} :
          /\ utc' = times[Len(times)]
          /\ processed_hashes' = r.up.hashes
          /\ hash_to_doc_id' = r.up.ids
          /\ store' = r.up.store
          /\ calls' = [calls EXCEPT ![c] =
                 [pc |-> IF r.up.upserted > 0 THEN "invalidating"
                         ELSE IF r.up.errors > 0 THEN "retrying"
                         ELSE "done",
                  docs |-> calls[c].docs,
                  pending |-> IF r.up.errors > 0
                              THEN PendingWrite([hashes |-> del.hashes,
                                                 ids |-> del.ids],
                                                calls[c].docs, times)
                              ELSE <<>>,
                  attempts |-> IF r.up.written > 0 THEN 1 ELSE 0,
                  overlapped |-> \E d \in ReindexCalls \ {c} : InProgress(d),
                  indexed |-> r.up.upserted]]
    /\ UNCHANGED <<backend, hist>>

\* add_documents, a further attempt after the sleep; after the last attempt
\* the error is reported by upsert_documents and the call returns
ReindexRetry(c, storeUp) ==
    /\ calls[c].pc = "retrying"
    /\ \E raised \in {AddRaises(backend, store, ReindexCol, calls[c].pending, storeUp)} :
          /\ store' = StoreAfterAdd(backend, store, ReindexCol, calls[c].pending, storeUp)
          /\ calls' = [calls EXCEPT
                 ![c].attempts = @ + 1,
                 ![c].indexed = IF raised THEN 0 ELSE Len(calls[c].pending),
                 ![c].pc = IF ~raised THEN "invalidating"
                           ELSE IF calls[c].attempts + 1 >= stop_after_attempt
                           THEN "done" ELSE "retrying"]
    /\ UNCHANGED <<backend, utc, processed_hashes, hash_to_doc_id, hist>>

\* idempotent_upsert from the answer of Redis to the return of reindex_document
ReindexReturn(c) ==
    /\ calls[c].pc = "invalidating"
    /\ calls' = [calls EXCEPT ![c].pc = "done"]
    /\ UNCHANGED idxvars

\* ---- Claims about upsert and ingestion ------------------------------------------
\* the j-th operation repeats the one before it: same operation, collection
\* and documents
Repeats(j, op) ==
    /\ j \in 2..Len(hist)
    /\ hist[j].op = op
    /\ hist[j - 1].op = op
    /\ hist[j].col = hist[j - 1].col
    /\ hist[j].docs = hist[j - 1].docs

\* C7: idempotent_upsert called twice with the same documents for the same
\* collection (the store answering both times, the first call having upserted
\* every document) leaves the collection's chunk count as it was after the
\* first call, and the second call writes nothing: it upserts no document and
\* every document is classified as a duplicate.
C7_UpsertIdempotent ==
    \A j \in 1..Len(hist) :
        ( /\ Repeats(j, "idempotent_upsert")
          /\ hist[j - 1].store_up /\ hist[j].store_up
          /\ hist[j - 1].upserted = hist[j - 1].total )
        => /\ hist[j].count_after = hist[j - 1].count_after
           /\ hist[j].upserted = 0
           /\ hist[j].skipped + hist[j].duplicate = hist[j].total

\* C8: ingest_documents run a second time on the same file and collection,
\* the first run having succeeded, reports chunks_created = 0, counts every
\* chunk as a duplicate skipped, and leaves the collection's chunk count
\* unchanged.
C8_ReingestCreatesNothing ==
    \A j \in 1..Len(hist) :
        ( /\ Repeats(j, "ingest_documents")
          /\ hist[j - 1].success
          /\ hist[j].store_up /\ hist[j].written > 0 )
        => /\ hist[j].chunks_created = 0
           /\ hist[j].duplicate = Len(hist[j].docs)
           /\ hist[j].count_after = hist[j - 1].count_after

\* C9: two chunks with equal content_hash handed to upsert_documents in one
\* call, for a collection and a registry that hold neither, give exactly one
\* indexed entry: one chunk is classified unique and written, the other is
\* classified duplicate.
C9_EqualHashIndexedOnce ==
    ( /\ Len(hist) >= 1
      /\ hist[1].op = "upsert_documents"
      /\ hist[1].store_up
      /\ Len(hist[1].docs) = 2
      /\ compute_content_hash(PlainDocument(hist[1].docs[1]))
           = compute_content_hash(PlainDocument(hist[1].docs[2])) )
    => /\ hist[1].unique = 1
       /\ hist[1].duplicate = 1
       /\ hist[1].written = 1
       /\ hist[1].count_after = 1

\* the chunks (index and text) a collection holds for a source
ChunksOf(st, col, source) ==
    { [chunk_index |-> e.doc.metadata.chunk_index, content |-> e.doc.page_content] :
        e \in { x \in st : x.col = col /\ x.doc.metadata.source = source } }

\* the chunks (index and text) a list of input documents stands for
ChunksIn(documents) ==
    { [chunk_index |-> documents[i].chunk_index, content |-> documents[i].content] :
        i \in 1..Len(documents) }

\* the documents carry pairwise different (source, chunk_index)
DistinctChunks(documents) ==
    \A i, j \in 1..Len(documents) :
        i # j => <<documents[i].source, documents[i].chunk_index>>
                    # <<documents[j].source, documents[j].chunk_index>>

\* C11: after reindex_document of a source with new chunks X (pairwise
\* different chunk indexes, the store answering, the call reporting success),
\* whether it is the first such call or a retry, the collection holds exactly
\* the chunks X for that source: no chunk of an earlier version remains.
C11_ReindexConverges ==
    ( /\ Len(hist) >= 1
      /\ DistinctChunks(hist[Len(hist)].docs)
      /\ hist[Len(hist)].op = "reindex_document"
      /\ hist[Len(hist)].success
      /\ hist[Len(hist)].store_up
      /\ hist[Len(hist)].errors = 0 )
    => ChunksOf(store, hist[Len(hist)].col, hist[Len(hist)].docs[1].source)
          = ChunksIn(hist[Len(hist)].docs)

\* C12: when the vector-store write of upsert_documents fails, the registry
\* does not keep the unstored chunks: the same call made again with the store
\* answering classifies every chunk as unique and writes it.
C12_FailedUpsertRepaired ==
    \A j \in 1..Len(hist) :
        ( /\ Repeats(j, "upsert_documents")
          /\ DistinctChunks(hist[j].docs)
          /\ hist[j - 1].unique = hist[j - 1].total
          /\ ~hist[j - 1].store_up
          /\ hist[j].store_up )
        => /\ hist[j].unique = hist[j].total
           /\ hist[j].upserted = hist[j].total
           /\ hist[j].count_after = hist[j].count_before + hist[j].total

\* C13: the registry is per collection: an upsert into a collection that no
\* earlier operation has touched classifies no chunk as a duplicate and skips
\* none, whatever was upserted into other collections before.
C13_RegistryPerCollection ==
    \A j \in 1..Len(hist) :
        ( /\ hist[j].op \in {"upsert_documents", "idempotent_upsert"}
          /\ DistinctChunks(hist[j].docs)
          /\ \A i \in 1..(j - 1) : hist[i].col # hist[j].col )
        => /\ hist[j].duplicate = 0
           /\ hist[j].skipped = 0

\* the store two reindex calls leave behind when they run one after the
\* other in the given order, the vector store answering as in `ups`
SerialStore(first, second, ups) ==
    LET reg0 == [hashes |-> {}, ids |-> {}]
        t1 == Readings(0, [i \in 1..Len(calls[first].docs) |-> 1])
        r1 == idempotent_upsert(backend, reg0, {}, ReindexCol, calls[first].docs,
                                t1, ups[1])
        t2 == Readings(t1[Len(t1)], [i \in 1..Len(calls[second].docs) |-> 1])
        r2 == idempotent_upsert(backend, [hashes |-> r1.up.hashes, ids |-> r1.up.ids],
                                r1.up.store, ReindexCol, calls[second].docs,
                                t2, ups[2])
    IN  r2.up.store

SerialStores ==
    { SerialStore(order[1], order[2], ups) :
        order \in { o \in ReindexCalls \X ReindexCalls : o[1] # o[2] },
        ups \in BOOLEAN \X BOOLEAN }

\* what a store holds: the text under each id
IndexContent(st) == { [col |-> e.col, id |-> e.id, text |-> e.doc.page_content] : e \in st }

\* C26: two concurrent reindex calls for one (collection, source) are
\* serialized: no call begins while the other is between its delete and the
\* end of its upsert, and once both have returned the index holds what some
\* serial order of the two calls leaves behind.
C26_ReindexSerialized ==
    /\ \A c \in ReindexCalls : ~calls[c].overlapped
    /\ (\A c \in ReindexCalls : calls[c].pc = "done")
          => \E st \in SerialStores : IndexContent(st) = IndexContent(store)

\* ---- CollectionManager: deleting a collection -------------------------------
\* ---- bounds of the model ------------------------------------------------
MaxDropOps == 3      \* operations in one behaviour that deletes a collection

\* VectorStoreManager.delete_collection: not implemented for Pinecone; the
\* Chroma client raises when it is down or does not know the collection
delete_collection(be, st, col, storeUp) ==
    IF be = "pinecone" \/ ~storeUp
    THEN [success |-> FALSE, store |-> st]
    ELSE [success |-> TRUE, store |-> {e \in st : e.col # col}]

\* CollectionManager.delete_collection: the vector store drops the collection
\* and the cached answers of the collection are invalidated; the registry of
\* index_manager.dedup_service is not among the objects it touches
DeleteCollection(col, storeUp) ==
    /\ \E del \in {delete_collection(backend, store, col, storeUp)} :
          /\ store' = del.store
          /\ hist' = Append(hist,
                 [op |-> "delete_collection", col |-> col, docs |-> <<>>,
                  success |-> del.success, total |-> 0,
                  processed |-> 0, skipped |-> 0, unique |-> 0, duplicate |-> 0,
                  upserted |-> 0, errors |-> 0, written |-> 0,
                  chunks_created |-> 0, store_up |-> storeUp,
                  count_before |-> TotalVectors(backend, store, col),
                  count_after |-> TotalVectors(backend, del.store, col)])
    /\ UNCHANGED <<backend, utc, processed_hashes, hash_to_doc_id>>

\* ---- Claims about a deleted collection ----------------------------------------
\* the hashes of a batch as upsert_documents computes them
BatchHashes(documents) ==
    { compute_content_hash(PlainDocument(documents[i])) : i \in 1..Len(documents) }

\* C30: after CollectionManager.delete_collection has deleted a collection, the
\* dedup registry holds no entry for the chunks that were indexed in it, and
\* upserting the same documents again classifies every one of them as unique
\* and writes them to the vector store.
C30_DeletedCollectionForgotten ==
    /\ ( /\ Len(hist) = 2
         /\ hist[1].op = "upsert_documents" /\ hist[1].upserted > 0
         /\ hist[2].op = "delete_collection" /\ hist[2].success
         /\ hist[2].col = hist[1].col )
       => BatchHashes(hist[1].docs) \cap processed_hashes = {}
    /\ ( /\ Len(hist) = 3
         /\ hist[1].op = "upsert_documents" /\ hist[1].upserted > 0
         /\ hist[2].op = "delete_collection" /\ hist[2].success
         /\ hist[3].op = "upsert_documents" /\ hist[3].store_up
         /\ hist[2].col = hist[1].col /\ hist[3].col = hist[1].col
         /\ hist[3].docs = hist[1].docs )
       => /\ hist[3].unique = Len(hist[3].docs)
          /\ hist[3].duplicate = 0
          /\ hist[3].count_after > 0

(***************************************************************************)
(*                    PART III : THE CONTENT HASH                          *)
(***************************************************************************)

\* ---- bounds of the model ------------------------------------------------
MaxStamp == 1        \* the latest created_at a chunk may carry

\* ---- inputs ------------------------------------------------------------
ChunkTexts == { <<"a">>, <<"A", "!">>, <<" ", "a">>, <<"b">> }

\* a chunk as the pipeline may hold it: the volatile metadata keys may be
\* absent or present
Chunk(text, created_at, embedding) ==
    [page_content |-> text,
     metadata |-> [source |-> "a.md", chunk_index |-> 0,
                   created_at |-> created_at, content_hash |-> None,
                   embedding |-> embedding]]

BareChunks ==
    { Chunk(text, created_at, embedding) :
        text \in ChunkTexts,
        created_at \in {None} \cup { Some(t) : t \in 0..MaxStamp },
        embedding \in {None, Some("vector")} }

\* the chunks, with and without the content hash idempotent_upsert attaches
Chunks == BareChunks \cup { WithContentHash(c) : c \in BareChunks }

HashSites == {"deduper", "indexer", "chunker"}

VARIABLES
    chunks,              \* the two chunks being fingerprinted
    digests              \* where they were hashed, and their two digests

hashvars == <<chunks, digests>>

NoDigests == [site |-> "none"]

\* the content hash as computed at one of the three places of the program
ContentHashAt(site, document) ==
    IF site = "deduper" THEN compute_content_hash(document)
    ELSE IF site = "indexer" THEN IndexManagerContentHash(document)
    ELSE ChunkerContentHash(document)

\* hashing both chunks at one site
ComputeContentHash(site) ==
    /\ digests = NoDigests
    /\ digests' = [site |-> site,
                   a |-> ContentHashAt(site, chunks[1]),
                   b |-> ContentHashAt(site, chunks[2])]
    /\ UNCHANGED chunks

\* the metadata without its volatile keys
NonVolatile(metadata) ==
    [source |-> metadata.source, chunk_index |-> metadata.chunk_index]

\* two chunks that differ at most in volatile fields
MetadataEquivalent(c, d) ==
    /\ normalize_text(c.page_content) = normalize_text(d.page_content)
    /\ NonVolatile(c.metadata) = NonVolatile(d.metadata)

\* C10: two chunks with the same normalized text and the same non-volatile
\* metadata (differing at most in created_at, embedding or an attached
\* content_hash) have equal content hashes, at whichever site the hash is
\* computed.
C10_HashIgnoresVolatileFields ==
    ( /\ digests # NoDigests
      /\ MetadataEquivalent(chunks[1], chunks[2]) )
    => digests.a = digests.b

(***************************************************************************)
(*                    PART IV : THE CACHE                                  *)
(***************************************************************************)

\* ---- inputs ------------------------------------------------------------
CacheQueries == {"q1"}
CacheDocIds == {"a.md_0"}
NoFilters == "{}"                \* json.dumps({}, sort_keys=True)

VARIABLES
    redis,               \* the keys the Redis database holds
    written_for,         \* history: [key, col], the collections a held key was written for
    cache_last           \* the cache operation just made and its answer

cachevars == <<redis, written_for, cache_last>>

\* ---- keys -------------------------------------------------------------
\* MD5 is modelled as injective: a digest is the tuple it was computed from.
Md5(key_data) == [md5 |-> key_data]

\* _generate_cache_key: md5 of "prefix:arg1:arg2...", as a hex digest
GenerateCacheKey(prefix, args) == Md5(<<prefix>> \o args)

\* the characters a hex digest is made of
HexDigits == {"0", "1", "2", "3", "4", "5", "6", "7", "8", "9",
              "a", "b", "c", "d", "e", "f"}

\* the glob "*:<collection>:*" matches a key only if the key holds a ':'
\* before and after the collection name; a key is a hex digest
PatternMatches(key, collection) == ":" \in HexDigits

VectorKey(query, collection) == GenerateCacheKey("vector", <<query, collection>>)
RerankKey(query, doc_id) == GenerateCacheKey("rerank", <<query, doc_id>>)
AnswerKey(query, collection) == GenerateCacheKey("answer", <<query, collection, NoFilters>>)

CacheKeys ==
    { VectorKey(q, c) : q \in CacheQueries, c \in Collections }
    \cup { RerankKey(q, d) : q \in CacheQueries, d \in CacheDocIds }
    \cup { AnswerKey(q, c) : q \in CacheQueries, c \in Collections }

NoCacheOp == [op |-> "none", col |-> "none", key |-> Md5(<<>>), ok |-> FALSE]

\* ---- operations ---------------------------------------------------------
\* setex of a key on behalf of a collection; redisUp: the server answers
CacheSet(op, key, collection, redisUp) ==
    /\ redis' = IF redisUp THEN redis \cup {key} ELSE redis
    /\ written_for' = IF redisUp
                      THEN written_for \cup {[key |-> key, col |-> collection]}
                      ELSE written_for
    /\ cache_last' = [op |-> op, col |-> collection, key |-> key, ok |-> redisUp]

\* get of a key: a hit only if the server answers and holds the key
CacheGet(op, key, collection, redisUp) ==
    /\ cache_last' = [op |-> op, col |-> collection, key |-> key,
                      ok |-> redisUp /\ key \in redis]
    /\ UNCHANGED <<redis, written_for>>

\* set_vector_hits
SetVectorHits(query, collection, redisUp) ==
    CacheSet("set_vector_hits", VectorKey(query, collection), collection, redisUp)

\* get_vector_hits
GetVectorHits(query, collection, redisUp) ==
    CacheGet("get_vector_hits", VectorKey(query, collection), collection, redisUp)

\* set_rerank_score, for a candidate of a query against `collection`
SetRerankScore(query, doc_id, collection, redisUp) ==
    CacheSet("set_rerank_score", RerankKey(query, doc_id), collection, redisUp)

\* get_rerank_score
GetRerankScore(query, doc_id, collection, redisUp) ==
    CacheGet("get_rerank_score", RerankKey(query, doc_id), collection, redisUp)

\* set_answer
SetAnswer(query, collection, redisUp) ==
    CacheSet("set_answer", AnswerKey(query, collection), collection, redisUp)

\* get_answer
GetAnswer(query, collection, redisUp) ==
    CacheGet("get_answer", AnswerKey(query, collection), collection, redisUp)

\* invalidate_collection_cache: delete the keys matching "*:<collection>:*"
InvalidateCollectionCache(collection, redisUp) ==
    LET keys == IF redisUp THEN { k \in redis : PatternMatches(k, collection) } ELSE {}
    IN  /\ redis' = redis \ keys
        /\ written_for' = { w \in written_for : w.key \notin keys }
        /\ cache_last' = [op |-> "invalidate_collection_cache", col |-> collection,
                          key |-> Md5(<<>>), ok |-> redisUp]

\* a key reaches its time to live
Expire(key) ==
    /\ key \in redis
    /\ redis' = redis \ {key}
    /\ written_for' = { w \in written_for : w.key # key }
    /\ cache_last' = NoCacheOp

\* ---- Claims about the cache -------------------------------------------------
\* C14: right after invalidate_collection_cache(X) has answered True, no key
\* that was written for collection X (vector hits, rerank score, answer) is
\* still held: a get of it misses.
C14_InvalidationEvicts ==
    ( /\ cache_last.op = "invalidate_collection_cache"
      /\ cache_last.ok )
    => \A w \in written_for : w.col = cache_last.col => w.key \notin redis

(***************************************************************************)
(*                    PART V : THE QUERY PLANNER                           *)
(***************************************************************************)

\* ---- bounds of the model ------------------------------------------------
MaxLead == 2         \* leading words of a query drawn from the vocabulary
MaxPad == 11         \* filler words that may follow them

\* ---- inputs ------------------------------------------------------------
\* words are sequences of characters, a query is a sequence of words
Word_what == <<"w", "h", "a", "t">>
Word_steps == <<"s", "t", "e", "p", "s">>
Word_why == <<"w", "h", "y">>
Word_find == <<"f", "i", "n", "d">>
Word_method == <<"m", "e", "t", "h", "o", "d">>
Word_variable == <<"v", "a", "r", "i", "a", "b", "l", "e">>
Word_classify == <<"c", "l", "a", "s", "s", "i", "f", "y">>
Word_api == <<"a", "p", "i">>
Word_x == <<"x">>

Vocabulary ==
    { Word_what, Word_steps, Word_why, Word_find, Word_method, Word_variable,
      Word_classify, Word_api }

Leads == UNION { [1..n -> Vocabulary] : n \in 0..MaxLead }

PlannerQueries ==
    { lead \o [i \in 1..k |-> Word_x] : lead \in Leads, k \in 0..MaxPad }

VARIABLES
    plan_query,          \* the lowercased query handed to the planner
    plan                 \* the plan analyze_query returned for it

planvars == <<plan_query, plan>>

NoPlan == [query_type |-> "none", bm25_weight |-> 0, vector_weight |-> 0]

\* ---- strings ------------------------------------------------------------
RECURSIVE JoinWords(_)
\* the query as one string, its words separated by single spaces
JoinWords(words) ==
    IF words = <<>> THEN <<>>
    ELSE IF Len(words) = 1 THEN words[1]
    ELSE words[1] \o <<" ">> \o JoinWords(Tail(words))

\* `term in text` for strings
IsSubstring(term, text) ==
    \E i \in 1..(Len(text) - Len(term) + 1) : SubSeq(text, i, i + Len(term) - 1) = term

\* ---- QueryPlanner ----------------------------------------------------------
\* the pattern families, each pattern reduced to its one-word alternatives
\* over the vocabulary (\b...\b matches a whole word)
factual_patterns == << {Word_what}, {}, {} >>
procedural_patterns == << {Word_steps, Word_method}, {}, {} >>
conceptual_patterns == << {Word_why}, {}, {} >>
search_patterns == << {Word_find}, {}, {} >>

\* _score_patterns: the number of patterns of the family found in the query
score_patterns(query, patterns) ==
    Cardinality({ i \in 1..Len(patterns) :
                    \E j \in 1..Len(query) : query[j] \in patterns[i] })

QueryTypes == <<"factual", "procedural", "conceptual", "search">>

\* _classify_query_type: max(scores, key=scores.get) takes the first type of
\* the dict with the highest score; "factual" when no pattern is found
classify_query_type(query) ==
    LET scores == << score_patterns(query, factual_patterns),
                     score_patterns(query, procedural_patterns),
                     score_patterns(query, conceptual_patterns),
                     score_patterns(query, search_patterns) >>
        best == CHOOSE i \in 1..4 :
                    /\ \A j \in 1..4 : scores[j] <= scores[i]
                    /\ \A j \in 1..(i - 1) : scores[j] < scores[i]
    IN  IF \E i \in 1..4 : scores[i] > 0 THEN QueryTypes[best] ELSE "factual"

\* base_weights, (bm25, vector), in hundredths
base_weights(query_type) ==
    IF query_type = "factual" THEN <<40, 60>>
    ELSE IF query_type = "procedural" THEN <<60, 40>>
    ELSE IF query_type = "conceptual" THEN <<30, 70>>
    ELSE IF query_type = "search" THEN <<70, 30>>
    ELSE <<50, 50>>

LongQuery == 10      \* more words than this: shift to vector
ShortQuery == 5      \* fewer words than this: shift to bm25
Shift == 10          \* 0.1, in hundredths

technical_terms ==
    << Word_api, <<"f", "u", "n", "c", "t", "i", "o", "n">>, Word_method,
       <<"c", "l", "a", "s", "s">>, Word_variable, <<"c", "o", "d", "e">>,
       <<"s", "y", "n", "t", "a", "x">> >>

\* any(term in query for term in technical_terms)
HasTechnicalTerm(query) ==
    \E i \in 1..Len(technical_terms) : IsSubstring(technical_terms[i], JoinWords(query))

\* mutant: the technical shift is added to bm25 only and nothing is normalized
calculate_weights_Unnormalized(query_type, query) ==
    LET base == base_weights(query_type)
        tech == IF HasTechnicalTerm(query) THEN Shift ELSE 0
    IN  <<base[1] + tech, base[2]>>

\* _calculate_weights, (bm25, vector), in hundredths
calculate_weights(query_type, query) ==
    LET base == base_weights(query_type)
        query_length == Len(query)
        len_shift == IF query_length > LongQuery THEN 0 - Shift
                     ELSE IF query_length < ShortQuery THEN Shift ELSE 0
        tech_shift == IF HasTechnicalTerm(query) THEN Shift ELSE 0
        bm25_base == base[1] + len_shift + tech_shift
        vector_base == base[2] - len_shift - tech_shift
        total == bm25_base + vector_base
    IN  << (bm25_base * 100) \div total, (vector_base * 100) \div total >>

\* analyze_query: the class and the two weights of the plan
analyze_query(query) ==
    LET query_type == classify_query_type(query)
        weights == calculate_weights(query_type, query)
    IN  [query_type |-> query_type, bm25_weight |-> weights[1],
         vector_weight |-> weights[2]]

\* QueryPlanner.analyze_query applied to the query
AnalyzeQuery ==
    /\ plan = NoPlan
    /\ plan' = analyze_query(plan_query)
    /\ UNCHANGED plan_query

\* ---- Claims about the planner ----------------------------------------------
\* C15: for every query, the two weights of the plan sum to 1 and each lies
\* between 0 and 1 (here: 100 hundredths).
C15_WeightsSumToOne ==
    plan # NoPlan =>
        /\ plan.bm25_weight + plan.vector_weight = 100
        /\ plan.bm25_weight \in 0..100
        /\ plan.vector_weight \in 0..100

\* a search query that is short and technical has been planned: the most
\* shifted plan there is
C15_Witness ==
    /\ plan.query_type = "search"
    /\ Len(plan_query) < ShortQuery
    /\ HasTechnicalTerm(plan_query)
    /\ plan.bm25_weight = 90
    /\ plan.vector_weight = 10

\* the technical tokens and the table the plan is specified by
StatedTechnicalTokens ==
    { Word_api, <<"f", "u", "n", "c", "t", "i", "o", "n">>, Word_method,
      <<"c", "l", "a", "s", "s">>, <<"c", "o", "d", "e">>,
      <<"s", "y", "n", "t", "a", "x">> }

\* (dense, lexical) of the class, then +0.10 dense above 10 tokens, +0.10
\* lexical below 5 tokens, +0.10 lexical with a technical token
StatedWeights(query_type, query) ==
    LET dense == IF query_type = "factual" THEN 60
                 ELSE IF query_type = "procedural" THEN 40
                 ELSE IF query_type = "conceptual" THEN 70 ELSE 30
        to_dense == IF Len(query) > 10 THEN 10 ELSE 0
        to_lexical == (IF Len(query) < 5 THEN 10 ELSE 0)
                      + (IF \E j \in 1..Len(query) : query[j] \in StatedTechnicalTokens
                         THEN 10 ELSE 0)
    IN  <<dense + to_dense - to_lexical, 100 - dense - to_dense + to_lexical>>

\* C16: for every query, the plan's (dense, lexical) weights are the base row
\* of its class with the stated shifts for its token count and for the
\* presence of a technical token.
C16_WeightsFollowTable ==
    plan # NoPlan =>
        <<plan.vector_weight, plan.bm25_weight>>
            = StatedWeights(plan.query_type, plan_query)

\* the pattern scores of the four classes, in the order of QueryTypes
PatternScores(query) ==
    << score_patterns(query, factual_patterns),
       score_patterns(query, procedural_patterns),
       score_patterns(query, conceptual_patterns),
       score_patterns(query, search_patterns) >>

\* C25: classification returns the class with the strictly highest pattern
\* score, and factual whenever two or more classes tie for the highest score
\* (no pattern matching at all included).
C25_TiesGoToFactual ==
    plan # NoPlan =>
        LET scores == PatternScores(plan_query)
            Highest(i) == \A j \in 1..4 : j # i => scores[j] < scores[i]
        IN  /\ \A i \in 1..4 : Highest(i) => plan.query_type = QueryTypes[i]
            /\ (~\E i \in 1..4 : Highest(i)) => plan.query_type = "factual"

(***************************************************************************)
(*                    PART VI : THE QUERY PATH                             *)
(***************************************************************************)

\* ---- bounds of the model ------------------------------------------------
MaxHits == 2         \* results a search backend returns
MaxTopK == 2         \* the largest top_k and rerank_top_k of a plan

\* ---- inputs ------------------------------------------------------------
\* scores are in ten-thousandths, weights in hundredths
VectorIds == {"a.md_0", "a.md_1"}        \* chunks the vector store may return
LexicalIds == {"a.md_1", "b.md_0"}       \* chunks the lexical index may return
SimilarityScores == {5000, 10000}        \* 1 - distance
Bm25Scores == {1, 2}                     \* Elasticsearch _score
RerankerScores == {1000, 9000}           \* cross-encoder relevance
PlanWeights == { <<70, 30>>, <<40, 60>> }    \* (vector_weight, bm25_weight)

\* a list of hits with pairwise different ids, by non-increasing score
HitLists(ids, scores, kind) ==
    { h \in UNION { [1..n -> [doc_id : ids, score : scores, kind : {kind}]] :
                        n \in 0..MaxHits } :
        /\ \A a, b \in 1..Len(h) : a # b => h[a].doc_id # h[b].doc_id
        /\ \A a \in 1..(Len(h) - 1) : h[a].score >= h[a + 1].score }

\* what similarity_search would return for 2 * top_k: langchain Documents
VectorResults == HitLists(VectorIds, SimilarityScores, "Document")

\* the lexical backend: not configured, failing, or answering with _source dicts
LexicalOutcomes ==
    { [state |-> "unavailable", hits |-> <<>>], [state |-> "raises", hits |-> <<>>] }
    \cup { [state |-> "up", hits |-> h] : h \in HitLists(LexicalIds, Bm25Scores, "dict") }

\* similarity_search answers, raises once, or raises every time
VectorOutcomes == {"ok", "raises_once", "down"}

\* the text the chat model returns, by what validate_response looks at
ModelTexts == [over_max_tokens : BOOLEAN, has_citation : BOOLEAN, has_hedging : BOOLEAN]

VARIABLES
    qin,                 \* the request and its plan
    stage,               \* how far answer_question has come
    candidates,          \* answer_question's `documents`
    qlog,                \* history: what each stage met and returned
    answer               \* the answer returned to the caller

queryvars == <<qin, stage, candidates, qlog, answer>>

NoAnswer == [kind |-> "none", text |-> [over_max_tokens |-> FALSE,
                                       has_citation |-> FALSE, has_hedging |-> FALSE]]

NoLog ==
    [vector |-> "none", lexical |-> "none", retrieved |-> <<>>,
     reranker |-> "none", reranked |-> <<>>, deadline |-> "none"]

\* ---- lists -------------------------------------------------------------
\* seq[:k]
Take(seq, k) == SubSeq(seq, 1, IF k < Len(seq) THEN k ELSE Len(seq))

RECURSIVE InsertDesc(_, _)
\* insert behind every entry whose score is at least as high
InsertDesc(sorted, e) ==
    IF sorted = <<>> THEN <<e>>
    ELSE IF Head(sorted).score >= e.score
         THEN <<Head(sorted)>> \o InsertDesc(Tail(sorted), e)
         ELSE <<e>> \o sorted

RECURSIVE SortDesc(_)
\* list.sort(key=score, reverse=True): stable, highest score first
SortDesc(seq) ==
    IF seq = <<>> THEN <<>>
    ELSE InsertDesc(SortDesc(SubSeq(seq, 1, Len(seq) - 1)), seq[Len(seq)])

MaxScore(seq) == CHOOSE m \in { seq[i].score : i \in 1..Len(seq) } :
                     \A i \in 1..Len(seq) : seq[i].score <= m
MinScore(seq) == CHOOSE m \in { seq[i].score : i \in 1..Len(seq) } :
                     \A i \in 1..Len(seq) : seq[i].score >= m

\* min-max normalization of the scores of a list, in hundredths
Normalized(seq) ==
    IF seq = <<>> THEN <<>>
    ELSE LET lo == MinScore(seq)
             hi == MaxScore(seq)
             range == IF hi # lo THEN hi - lo ELSE 1
         IN  [i \in 1..Len(seq) |-> ((seq[i].score - lo) * 100) \div range]

\* ---- HybridSearchEngine ------------------------------------------------------
\* bm25_search: [] when the client is missing or the search raises
bm25_search(lexical) ==
    IF lexical.state = "up" THEN lexical.hits ELSE <<>>

\* the entries of doc_scores, in insertion order: the vector results, then
\* the lexical results the vector search did not return
DocScores(vector_results, bm25_results) ==
    LET nv == Normalized(vector_results)
        nb == Normalized(bm25_results)
        Bm25Of(doc_id) ==
            IF \E j \in 1..Len(bm25_results) : bm25_results[j].doc_id = doc_id
            THEN nb[CHOOSE j \in 1..Len(bm25_results) : bm25_results[j].doc_id = doc_id]
            ELSE 0
        from_vector == [i \in 1..Len(vector_results) |->
                           [doc_id |-> vector_results[i].doc_id,
                            kind |-> vector_results[i].kind,
                            vector_score |-> nv[i],
                            bm25_score |-> Bm25Of(vector_results[i].doc_id)]]
        only_bm25 == SelectSeq([j \in 1..Len(bm25_results) |->
                                   [doc_id |-> bm25_results[j].doc_id,
                                    kind |-> bm25_results[j].kind,
                                    vector_score |-> 0,
                                    bm25_score |-> nb[j]]],
                               LAMBDA e : \A i \in 1..Len(vector_results) :
                                              vector_results[i].doc_id # e.doc_id)
    IN  from_vector \o only_bm25

\* mutant: the fused list is returned in insertion order
hybrid_search_Unsorted(vector_results, lexical, top_k, semantic_weight, keyword_weight) ==
    LET bm25_results == bm25_search(lexical)
        doc_scores == DocScores(vector_results, bm25_results)
    IN  IF bm25_results = <<>> THEN Take(vector_results, top_k)
        ELSE Take([i \in 1..Len(doc_scores) |->
                      [doc_id |-> doc_scores[i].doc_id, kind |-> doc_scores[i].kind,
                       score |-> semantic_weight * doc_scores[i].vector_score
                                 + keyword_weight * doc_scores[i].bm25_score]], top_k)

\* hybrid_search
hybrid_search(vector_results, lexical, top_k, semantic_weight, keyword_weight) ==
    LET bm25_results == bm25_search(lexical)
        doc_scores == DocScores(vector_results, bm25_results)
        hybrid_results ==
            [i \in 1..Len(doc_scores) |->
                [doc_id |-> doc_scores[i].doc_id, kind |-> doc_scores[i].kind,
                 score |-> semantic_weight * doc_scores[i].vector_score
                           + keyword_weight * doc_scores[i].bm25_score]]
    IN  IF bm25_results = <<>> THEN Take(vector_results, top_k)
        ELSE Take(SortDesc(hybrid_results), top_k)

\* ---- QueryService -------------------------------------------------------------
\* mutant: without lexical results the retrieval fails
hybrid_retrieval_NeedsLexical(vector_results, vector, lexical, top_k, weights) ==
    IF vector = "down" \/ lexical.state # "up" THEN [failed |-> TRUE, documents |-> <<>>]
    ELSE IF vector = "raises_once"
    THEN [failed |-> FALSE, documents |-> Take(vector_results, top_k)]
    ELSE [failed |-> FALSE,
          documents |-> hybrid_search(vector_results, lexical, top_k,
                                      weights[1], weights[2])]

\* _hybrid_retrieval: a failing vector search is tried once more with top_k;
\* if that fails too the exception leaves the method
hybrid_retrieval(vector_results, vector, lexical, top_k, weights) ==
    IF vector = "down" THEN [failed |-> TRUE, documents |-> <<>>]
    ELSE IF vector = "raises_once"
    THEN [failed |-> FALSE, documents |-> Take(vector_results, top_k)]
    ELSE [failed |-> FALSE,
          documents |-> hybrid_search(vector_results, lexical, top_k,
                                      weights[1], weights[2])]

\* answer_question up to the end of retrieval
Retrieve(vector, lexical) ==
    /\ stage = "start"
    /\ \E r \in {hybrid_retrieval(qin.vector_results, vector, lexical, qin.top_k,
                                  qin.weights)} :
          /\ qlog' = [qlog EXCEPT !.vector = vector, !.lexical = lexical.state,
                                  !.retrieved = r.documents]
          /\ candidates' = r.documents
          /\ IF r.failed
             THEN /\ stage' = "done"
                  /\ answer' = [NoAnswer EXCEPT !.kind = "processing_error"]
             ELSE IF r.documents = <<>>
             THEN /\ stage' = "done"
                  /\ answer' = [NoAnswer EXCEPT !.kind = "no_documents"]
             ELSE /\ stage' = "retrieved"
                  /\ UNCHANGED answer
    /\ UNCHANGED qin

\* ---- RerankingService ------------------------------------------------------------
RerankWeight == 60       \* 0.6 of the rerank score
OriginalWeight == 40     \* 0.4 of the original score
FallbackScore == 5000    \* 0.5, the score given when the scoring call fails

\* documents[:top_k] if top_k else documents
TakeIf(seq, top_k) == IF top_k # 0 THEN Take(seq, top_k) ELSE seq

\* _apply_scores
apply_scores(documents, rerank_scores, top_k) ==
    IF Len(rerank_scores) # Len(documents) THEN TakeIf(documents, top_k)
    ELSE TakeIf(SortDesc([i \in 1..Len(documents) |->
                    [documents[i] EXCEPT !.score =
                        (RerankWeight * rerank_scores[i]
                         + OriginalWeight * documents[i].score) \div 100]]), top_k)

\* the reranker: no model loaded, the scoring call failing, or scores
RerankerOutcomes(n) ==
    { [state |-> "no_model", scores |-> <<>>], [state |-> "fails", scores |-> <<>>] }
    \cup { [state |-> "scores", scores |-> sc] : sc \in [1..n -> RerankerScores] }

\* _rerank_with_cross_encoder: the scores, or 0.5 for each document when the
\* call fails
rerank_with_cross_encoder(reranker, n) ==
    IF reranker.state = "fails" THEN [i \in 1..n |-> FallbackScore]
    ELSE reranker.scores

\* rerank_documents
rerank_documents(documents, reranker, top_k) ==
    IF documents = <<>> \/ reranker.state = "no_model" THEN documents
    ELSE apply_scores(documents, rerank_with_cross_encoder(reranker, Len(documents)),
                      top_k)

\* answer_question, the reranking stage: skipped for a single document or
\* when the plan does not ask for it
Rerank(reranker) ==
    /\ stage = "retrieved"
    /\ stage' = "reranked"
    /\ IF qin.use_reranking /\ Len(candidates) > 1
       THEN /\ reranker \in RerankerOutcomes(Len(candidates))
            /\ \E r \in {rerank_documents(candidates, reranker, qin.rerank_top_k)} :
                  /\ candidates' = r
                  /\ qlog' = [qlog EXCEPT !.reranker = reranker.state, !.reranked = r]
       ELSE /\ reranker = [state |-> "no_model", scores |-> <<>>]
            /\ UNCHANGED <<candidates, qlog>>
    /\ UNCHANGED <<qin, answer>>

\* ---- GuardrailService ---------------------------------------------------------
\* validate_response with the default GuardrailConfig: size, citations,
\* unverifiable phrases
validate_response(text) ==
    /\ ~text.over_max_tokens
    /\ text.has_citation
    /\ ~text.has_hedging

\* _generate_answer: the model's text as it is; an error text when the call
\* fails or a candidate is not a Document
generate_answer(documents, modelUp, text) ==
    IF \E i \in 1..Len(documents) : documents[i].kind # "Document"
    THEN [kind |-> "generation_error", text |-> NoAnswer.text]
    ELSE IF ~modelUp THEN [kind |-> "generation_error", text |-> NoAnswer.text]
    ELSE [kind |-> "model_text", text |-> text]

\* answer_question, the generation stage and the return.  `expired`: the
\* request's total deadline has passed when the model's answer arrives;
\* answer_question reads the clock only to report latencies.
Generate(modelUp, text, expired) ==
    /\ stage = "reranked"
    /\ stage' = "done"
    /\ answer' = generate_answer(candidates, modelUp, text)
    /\ qlog' = [qlog EXCEPT !.deadline = IF expired THEN "expired" ELSE "met"]
    /\ UNCHANGED <<qin, candidates>>

\* ---- Claims about the query path ---------------------------------------------
\* retrieval has returned its candidates
Retrieved == qlog.vector \in {"ok", "raises_once"}

NonIncreasing(seq) == \A i \in 1..(Len(seq) - 1) : seq[i].score >= seq[i + 1].score

\* C17: the candidates retrieval returns are at most top_k and their scores
\* are non-increasing in returned order, on the fused path and on the
\* dense-only paths alike.
C17_RetrievalBoundedAndSorted ==
    Retrieved =>
        /\ Len(qlog.retrieved) <= qin.top_k
        /\ NonIncreasing(qlog.retrieved)

\* the fused path has cut a list of three chunks, the lexical-only one
\* ranking first, down to top_k = 2
C17_Witness ==
    /\ qlog.vector = "ok"
    /\ qlog.lexical = "up"
    /\ qin.top_k = 2
    /\ Len(qin.vector_results) = 2
    /\ Len(qlog.retrieved) = 2
    /\ qlog.retrieved[1].kind = "dict"
    /\ qlog.retrieved[1].score > qlog.retrieved[2].score

\* C18: with the lexical backend unavailable or failing, retrieval returns
\* the first top_k vector results and the query is answered, not failed.
C18_DenseOnlyFallback ==
    ( /\ qlog.vector = "ok"
      /\ qlog.lexical \in {"unavailable", "raises"} )
    => /\ qlog.retrieved = Take(qin.vector_results, qin.top_k)
       /\ answer.kind # "processing_error"
       /\ qin.vector_results # <<>> => stage # "done" \/ answer.kind = "model_text"
                                                       \/ answer.kind = "generation_error"

\* a query whose lexical search raised was retrieved dense-only, cut to
\* top_k, reranked and answered with the model's text
C18_Witness ==
    /\ qlog.vector = "ok"
    /\ qlog.lexical = "raises"
    /\ Len(qin.vector_results) > qin.top_k
    /\ qlog.reranker = "none"
    /\ stage = "done"
    /\ answer.kind = "model_text"

\* C19: when the reranker has no model or its scoring call fails,
\* rerank_documents returns the candidates it was given: same candidates,
\* same order, same scores, none dropped.
C19_RerankerPassThrough ==
    qlog.reranker \in {"no_model", "fails"} => qlog.reranked = qlog.retrieved

\* C21: a query whose total deadline expires before generation completes
\* returns a structured partial result flagged deadline_exceeded, with the
\* sources retrieved so far, not the outcome of the stages run to completion.
C21_DeadlinePartialResult ==
    (stage = "done" /\ qlog.deadline = "expired")
        => answer.kind = "deadline_exceeded"

\* C20: when the model's answer fails validate_response, the caller gets the
\* structured refusal, never the model's text.
C20_RefusalOnFailedValidation ==
    ( /\ stage = "done"
      /\ answer.kind \in {"model_text", "refusal"}
      /\ ~validate_response(answer.text) )
    => answer.kind = "refusal"

(***************************************************************************)
(*               PART VII : THE PATHS OF AN INGESTION REQUEST              *)
(***************************************************************************)

\* ---- bounds of the model ------------------------------------------------
MaxPaths == 2        \* number of paths in one ingestion request

\* ---- program constants --------------------------------------------------
max_file_size_mb == 100
BytesPerMb == 1048576            \* 1024 * 1024

\* ---- inputs ------------------------------------------------------------
Suffixes == {".md", ".TXT", ".xyz"}
MaxFileBytes == max_file_size_mb * BytesPerMb
FileSizes == {MaxFileBytes, MaxFileBytes + 1}       \* st_size

\* what the file system holds under a path: nothing, a directory, or a
\* regular file of some size from which the processor gets some chunks
PathStates ==
    { [exists |-> FALSE, is_file |-> FALSE, size |-> 0, suffix |-> sfx, chunks |-> 0] :
          sfx \in Suffixes }
    \cup { [exists |-> TRUE, is_file |-> FALSE, size |-> 0, suffix |-> sfx, chunks |-> 0] :
          sfx \in Suffixes }
    \cup [exists : {TRUE}, is_file : {TRUE}, size : FileSizes, suffix : Suffixes,
          chunks : 0..1]

PathLists == UNION { [1..n -> PathStates] : n \in 0..MaxPaths }

VARIABLES
    file_paths,          \* the paths of the request
    ingest               \* the answer of ingest_documents and the calls it made

ingestvars == <<file_paths, ingest>>

NoIngest ==
    [done |-> FALSE, success |-> FALSE, documents_processed |-> 0,
     chunks_created |-> 0, errors |-> 0, embed_calls |-> 0, store_writes |-> 0]

\* ---- IngestionService ----------------------------------------------------------
\* file_path.suffix.lower()
LowerSuffix == [sfx \in Suffixes |-> IF sfx = ".TXT" THEN ".txt" ELSE sfx]

SupportedSuffixes == {".pdf", ".md", ".markdown", ".txt", ".text"}

\* mutant: the file type is not looked at
validate_file_paths_AnySuffix(paths) ==
    SelectSeq(paths, LAMBDA p :
        /\ p.exists
        /\ p.is_file
        /\ ~(p.size > max_file_size_mb * BytesPerMb))

\* _validate_file_paths: the paths that pass every test, in their order
validate_file_paths(paths) ==
    SelectSeq(paths, LAMBDA p :
        /\ p.exists
        /\ p.is_file
        /\ ~(p.size > max_file_size_mb * BytesPerMb)
        /\ LowerSuffix[p.suffix] \in SupportedSuffixes)

RECURSIVE TotalChunks(_)
\* len(all_documents) after process_files
TotalChunks(paths) ==
    IF paths = <<>> THEN 0 ELSE Head(paths).chunks + TotalChunks(Tail(paths))

\* ingest_documents: validation, processing, embedding, storing
ingest_paths(paths, embedUp, storeUp) ==
    LET valid_paths == validate_file_paths(paths)
        all_documents == TotalChunks(valid_paths)
    IN  IF valid_paths = <<>>
        THEN [NoIngest EXCEPT !.done = TRUE, !.errors = 1]
        ELSE IF all_documents = 0
        THEN [NoIngest EXCEPT !.done = TRUE, !.errors = 1,
                              !.documents_processed = Len(valid_paths)]
        ELSE IF ~embedUp
        THEN [NoIngest EXCEPT !.done = TRUE, !.errors = 1, !.embed_calls = 1,
                              !.documents_processed = Len(valid_paths)]
        ELSE [done |-> TRUE, success |-> storeUp,
              documents_processed |-> Len(valid_paths),
              chunks_created |-> all_documents,
              errors |-> IF storeUp THEN 0 ELSE 1,
              embed_calls |-> 1, store_writes |-> 1]

\* IngestionService.ingest_documents for the paths of the request
IngestPaths(embedUp, storeUp) ==
    /\ ~ingest.done
    /\ ingest' = ingest_paths(file_paths, embedUp, storeUp)
    /\ UNCHANGED file_paths

\* ---- Claims about the paths of a request -----------------------------------------
\* an existing regular file of a supported type within the size limit
Acceptable(p) ==
    /\ p.exists
    /\ p.is_file
    /\ p.size <= MaxFileBytes
    /\ \E sfx \in SupportedSuffixes : LowerSuffix[p.suffix] = sfx

\* C22: when none of the given paths is an existing regular file of a
\* supported type within the size limit, ingest_documents answers success =
\* false, documents_processed = 0 and at least one error, having called
\* neither the embedding service nor the vector store.
C22_NoValidFileNoWork ==
    (ingest.done /\ \A i \in 1..Len(file_paths) : ~Acceptable(file_paths[i]))
        => /\ ~ingest.success
           /\ ingest.documents_processed = 0
           /\ ingest.errors >= 1
           /\ ingest.embed_calls = 0
           /\ ingest.store_writes = 0

\* C22 witness: a missing file and a file of an unsupported type were given
C22_Witness ==
    /\ ingest.done
    /\ Len(file_paths) = 2
    /\ ~file_paths[1].exists
    /\ file_paths[2].exists /\ file_paths[2].is_file
    /\ file_paths[2].suffix = ".xyz" /\ file_paths[2].chunks = 1
    /\ ~ingest.success

(***************************************************************************)
(*                    PART VIII : CHUNK IDS                                *)
(***************************************************************************)

\* ---- bounds of the model ------------------------------------------------
MaxSections == 2         \* sections of one document
MaxSectionChunks == 2    \* chunks the splitter makes of one section

\* ---- inputs ------------------------------------------------------------
SectionTexts == { <<"a">>, <<"b">> }

\* a section as _split_into_sections and the text splitter leave it: the
\* texts of its chunks, at least one
SectionSplits == UNION { [1..n -> SectionTexts] : n \in 1..MaxSectionChunks }

\* a document: its sections in order, at least one
SectionLists == UNION { [1..n -> SectionSplits] : n \in 1..MaxSections }

ChunkedSource == "a.md"
ChunkedCol == "c1"

VARIABLES
    sections,            \* the document handed to the chunker
    chunked              \* its chunks and the ids each place derives for them

chunkvars == <<sections, chunked>>

NoChunks ==
    [stage |-> "none", chunks |-> <<>>, store_ids |-> <<>>, registry_ids |-> <<>>,
     fusion_ids |-> <<>>, stored |-> 0]

\* ---- SectionAwareChunker -----------------------------------------------------
\* _chunk_section: chunk_index counts within the section
chunk_section(split, section_num) ==
    [i \in 1..Len(split) |->
        [page_content |-> split[i],
         metadata |-> [source |-> ChunkedSource, section_num |-> section_num,
                       chunk_index |-> i - 1, created_at |-> None,
                       content_hash |-> None, embedding |-> None]]]

RECURSIVE ChunkSections(_, _)
\* the chunks of the sections, one section after the other
ChunkSections(splits, section_num) ==
    IF splits = <<>> THEN <<>>
    ELSE chunk_section(Head(splits), section_num)
         \o ChunkSections(Tail(splits), section_num + 1)

\* chunk_document: the chunks of every section, each with its content hash
chunk_document(splits) ==
    LET all_chunks == ChunkSections(splits, 0)
    IN  [i \in 1..Len(all_chunks) |->
            [all_chunks[i] EXCEPT !.metadata.content_hash =
                 Some(ChunkerContentHash(all_chunks[i]))]]

\* SectionAwareChunker.chunk_document applied to the document
ChunkDocument ==
    /\ chunked.stage = "none"
    /\ chunked' = [NoChunks EXCEPT !.stage = "chunked",
                                   !.chunks = chunk_document(sections)]
    /\ UNCHANGED sections

\* ---- the ids of a chunk ------------------------------------------------------
\* _add_to_chroma: f"{source}_{chunk_index}"; _add_to_pinecone puts the
\* collection name in front
vector_id(be, col, document) ==
    IF be = "pinecone" THEN <<col>> \o DocId(document) ELSE DocId(document)

\* HybridSearchEngine._get_doc_id: f"{source}_{chunk_index}"
get_doc_id(document) == <<document.metadata.source, document.metadata.chunk_index>>

\* the chunks are written to an empty collection with upsert_documents and
\* come back as candidates of a fusion
IndexChunks(be) ==
    /\ chunked.stage = "chunked"
    /\ \E up \in {upsert_documents(be, [hashes |-> {}, ids |-> {}], {}, ChunkedCol,
                                   chunked.chunks, TRUE)} :
          chunked' = [chunked EXCEPT
              !.stage = "indexed",
              !.store_ids = [i \in 1..Len(chunked.chunks) |->
                                vector_id(be, ChunkedCol, chunked.chunks[i])],
              !.registry_ids = [i \in 1..Len(chunked.chunks) |->
                  (CHOOSE e \in up.ids :
                       e.hash = compute_content_hash(chunked.chunks[i])).doc_id],
              !.fusion_ids = [i \in 1..Len(chunked.chunks) |->
                                 get_doc_id(chunked.chunks[i])],
              !.stored = Cardinality(up.store)]
    /\ UNCHANGED sections

\* ---- Claims about chunk ids ------------------------------------------------------
\* C27: chunk ids are injective on (collection, source, section index, chunk
\* index within section): two chunks of a document that differ in section or
\* in chunk index get different ids in the vector store, in the dedup
\* registry and in score fusion, and both are stored.
C27_ChunkIdsInjective ==
    chunked.stage = "indexed" =>
        /\ \A i, j \in 1..Len(chunked.chunks) :
              i # j => /\ chunked.store_ids[i] # chunked.store_ids[j]
                       /\ chunked.registry_ids[i] # chunked.registry_ids[j]
                       /\ chunked.fusion_ids[i] # chunked.fusion_ids[j]
        /\ chunked.stored = Len(chunked.chunks)

(***************************************************************************)
(*                          Specifications                                 *)
(***************************************************************************)

\* the admission controller at rest
RLIdle ==
    /\ now = 0
    /\ nreq = 0
    /\ qsets = 0
    /\ api_key_quotas = [k \in Clients |-> NoQuota]
    /\ request_tracking = [k \in Clients |-> <<>>]
    /\ concurrent_requests = [k \in Clients |-> 0]
    /\ queue_depths = [k \in Clients |-> 0]
    /\ last_cleanup = 0
    /\ admitted = [k \in Clients |-> <<>>]
    /\ handling = [k \in Clients |-> 0]
    /\ unreleased = [k \in Clients |-> 0]
    /\ last = NoDecision

\* the index at rest
IdxIdle ==
    /\ backend = "chroma-skip"
    /\ utc = 0
    /\ processed_hashes = {}
    /\ hash_to_doc_id = {}
    /\ store = {}
    /\ hist = <<>>

\* nothing being fingerprinted
HashIdle ==
    /\ chunks = <<>>
    /\ digests = NoDigests

\* an empty cache
CacheIdle ==
    /\ redis = {}
    /\ written_for = {}
    /\ cache_last = NoCacheOp

\* no query being planned
PlanIdle ==
    /\ plan_query = <<>>
    /\ plan = NoPlan

\* no query being answered
QueryIdle ==
    /\ qin = [vector_results |-> <<>>, top_k |-> 1, rerank_top_k |-> 1,
              weights |-> <<70, 30>>, use_reranking |-> FALSE]
    /\ stage = "idle"
    /\ candidates = <<>>
    /\ qlog = NoLog
    /\ answer = NoAnswer

\* no reindex call made
ReindexIdle == calls = [c \in ReindexCalls |-> ReadyCall(<<>>)]

\* no ingestion request made
IngestIdle ==
    /\ file_paths = <<>>
    /\ ingest = NoIngest

\* no document being chunked
ChunkIdle ==
    /\ sections = <<>>
    /\ chunked = NoChunks

\* the variables of every part but one
exceptRL == <<idxvars, hashvars, cachevars, planvars,
        queryvars, reindexvars, ingestvars, chunkvars>>
exceptIdx == <<rlvars, hashvars, cachevars, planvars,
        queryvars, reindexvars, ingestvars, chunkvars>>
exceptHash == <<rlvars, idxvars, cachevars, planvars,
        queryvars, reindexvars, ingestvars, chunkvars>>
exceptCache == <<rlvars, idxvars, hashvars, planvars,
        queryvars, reindexvars, ingestvars, chunkvars>>
exceptPlan == <<rlvars, idxvars, hashvars, cachevars,
        queryvars, reindexvars, ingestvars, chunkvars>>
exceptQuery == <<rlvars, idxvars, hashvars, cachevars, planvars, reindexvars, ingestvars, chunkvars>>
exceptReindex == <<rlvars, hashvars, cachevars, planvars,
        queryvars, ingestvars, chunkvars>>
exceptIngest == <<rlvars, idxvars, hashvars, cachevars, planvars,
        queryvars, reindexvars, chunkvars>>
exceptChunk == <<rlvars, idxvars, hashvars, cachevars, planvars, queryvars,
        reindexvars, ingestvars>>

\* RateLimiter.__init__ and the quota table set up at startup
RLInit ==
    /\ IdxIdle
    /\ HashIdle
    /\ CacheIdle
    /\ PlanIdle
    /\ QueryIdle
    /\ ReindexIdle
    /\ IngestIdle
    /\ ChunkIdle
    /\ now = 0
    /\ nreq = 0
    /\ qsets = 0
    /\ request_tracking = [k \in Clients |-> <<>>]
    /\ concurrent_requests = [k \in Clients |-> 0]
    /\ queue_depths = [k \in Clients |-> 0]
    /\ last_cleanup = 0
    /\ admitted = [k \in Clients |-> <<>>]
    /\ handling = [k \in Clients |-> 0]
    /\ unreleased = [k \in Clients |-> 0]
    /\ last = NoDecision
    /\ api_key_quotas \in QuotaTables

RLNext ==
    \/ \E h \in Headers, s \in Scopes, big \in BOOLEAN, d \in Elapsed :
          MiddlewareEnter(h, s, big, d) /\ UNCHANGED exceptRL
    \/ \E k \in Clients, raised \in BOOLEAN :
          MiddlewareExit(k, raised) /\ UNCHANGED exceptRL
    \/ \E k \in Clients :
          SetQueueDepth(k, max_queue_depth) /\ UNCHANGED exceptRL

SpecRL == RLInit /\ [][RLNext]_<<rlvars, exceptRL>>

\* DeduplicationService.__init__ and an empty vector store
IdxInit ==
    /\ RLIdle
    /\ HashIdle
    /\ CacheIdle
    /\ PlanIdle
    /\ QueryIdle
    /\ ReindexIdle
    /\ IngestIdle
    /\ ChunkIdle
    /\ utc = 0
    /\ processed_hashes = {}
    /\ hash_to_doc_id = {}
    /\ store = {}
    /\ hist = <<>>
    /\ backend \in Backends

\* the operations a behaviour may still take (MaxOps bounds their number)
IdxNext ==
    \/ /\ Len(hist) < MaxOps
       /\ \E col \in Collections, b \in Batches, up \in BOOLEAN :
             \E adv \in [1..Len(b) -> {0, 1}] :
                IdempotentUpsert(col, b, adv, up) /\ UNCHANGED exceptIdx
    \/ /\ Len(hist) < MaxOps
       /\ \E col \in Collections, b \in Batches, up \in BOOLEAN :
             UpsertDocuments(col, b, up) /\ UNCHANGED exceptIdx
    \/ /\ Len(hist) < MaxOps
       /\ \E col \in Collections, src \in Sources, b \in Batches, up \in BOOLEAN :
             \E adv \in [1..Len(b) -> {1}] :
                ReindexDocument(col, src, b, adv, up) /\ UNCHANGED exceptIdx
    \/ /\ Len(hist) < MaxOps
       /\ \E col \in Collections, f \in Sources, eup \in BOOLEAN, up \in BOOLEAN :
             IngestDocuments(col, f, eup, up) /\ UNCHANGED exceptIdx

SpecIdx == IdxInit /\ [][IdxNext]_<<idxvars, exceptIdx>>

\* two chunks drawn from the bounded set, not yet hashed
HashInit ==
    /\ RLIdle
    /\ IdxIdle
    /\ CacheIdle
    /\ PlanIdle
    /\ QueryIdle
    /\ ReindexIdle
    /\ IngestIdle
    /\ ChunkIdle
    /\ digests = NoDigests
    /\ chunks \in Chunks \X Chunks

HashNext ==
    \E site \in HashSites :
        ComputeContentHash(site) /\ UNCHANGED exceptHash

SpecHash == HashInit /\ [][HashNext]_<<hashvars, exceptHash>>

\* CacheService.__init__: an empty database
CacheInit ==
    /\ RLIdle
    /\ IdxIdle
    /\ HashIdle
    /\ PlanIdle
    /\ QueryIdle
    /\ ReindexIdle
    /\ IngestIdle
    /\ ChunkIdle
    /\ written_for = {}
    /\ cache_last = NoCacheOp
    /\ redis = {}

CacheNext ==
    \/ \E q \in CacheQueries, c \in Collections, up \in BOOLEAN :
          SetVectorHits(q, c, up) /\ UNCHANGED exceptCache
    \/ \E q \in CacheQueries, c \in Collections, up \in BOOLEAN :
          GetVectorHits(q, c, up) /\ UNCHANGED exceptCache
    \/ \E q \in CacheQueries, d \in CacheDocIds, c \in Collections, up \in BOOLEAN :
          SetRerankScore(q, d, c, up) /\ UNCHANGED exceptCache
    \/ \E q \in CacheQueries, d \in CacheDocIds, c \in Collections, up \in BOOLEAN :
          GetRerankScore(q, d, c, up) /\ UNCHANGED exceptCache
    \/ \E q \in CacheQueries, c \in Collections, up \in BOOLEAN :
          SetAnswer(q, c, up) /\ UNCHANGED exceptCache
    \/ \E q \in CacheQueries, c \in Collections, up \in BOOLEAN :
          GetAnswer(q, c, up) /\ UNCHANGED exceptCache
    \/ \E c \in Collections, up \in BOOLEAN :
          InvalidateCollectionCache(c, up) /\ UNCHANGED exceptCache
    \/ \E k \in CacheKeys :
          Expire(k) /\ UNCHANGED exceptCache

SpecCache == CacheInit /\ [][CacheNext]_<<cachevars, exceptCache>>

\* a query drawn from the bounded set, not yet planned
PlanInit ==
    /\ RLIdle
    /\ IdxIdle
    /\ HashIdle
    /\ CacheIdle
    /\ QueryIdle
    /\ ReindexIdle
    /\ IngestIdle
    /\ ChunkIdle
    /\ plan = NoPlan
    /\ plan_query \in PlannerQueries

PlanNext == AnalyzeQuery /\ UNCHANGED exceptPlan

SpecPlan == PlanInit /\ [][PlanNext]_<<planvars, exceptPlan>>

\* a question with its plan and what the vector store holds for it
QueryInit ==
    /\ RLIdle
    /\ IdxIdle
    /\ HashIdle
    /\ CacheIdle
    /\ PlanIdle
    /\ ReindexIdle
    /\ IngestIdle
    /\ ChunkIdle
    /\ stage = "start"
    /\ candidates = <<>>
    /\ qlog = NoLog
    /\ answer = NoAnswer
    /\ qin \in [vector_results : VectorResults, top_k : 1..MaxTopK,
                rerank_top_k : 1..MaxTopK, weights : PlanWeights,
                use_reranking : BOOLEAN]

QueryNext ==
    \/ \E vector \in VectorOutcomes, lexical \in LexicalOutcomes :
          Retrieve(vector, lexical) /\ UNCHANGED exceptQuery
    \/ \E reranker \in RerankerOutcomes(MaxTopK) \cup RerankerOutcomes(1) :
          Rerank(reranker) /\ UNCHANGED exceptQuery
    \/ \E modelUp \in BOOLEAN, text \in ModelTexts, expired \in BOOLEAN :
          Generate(modelUp, text, expired) /\ UNCHANGED exceptQuery

SpecQuery == QueryInit /\ [][QueryNext]_<<queryvars, exceptQuery>>

\* two reindex calls for one source of one collection, issued together
\* against an empty index
ReindexInit ==
    /\ RLIdle
    /\ HashIdle
    /\ CacheIdle
    /\ PlanIdle
    /\ QueryIdle
    /\ IngestIdle
    /\ ChunkIdle
    /\ utc = 0
    /\ processed_hashes = {}
    /\ hash_to_doc_id = {}
    /\ store = {}
    /\ hist = <<>>
    /\ backend \in Backends
    /\ calls \in [ReindexCalls -> { ReadyCall(b) : b \in ReindexBatches }]

ReindexNext ==
    \/ \E c \in ReindexCalls, up \in BOOLEAN :
          ReindexBegin(c, up) /\ UNCHANGED exceptReindex
    \/ \E c \in ReindexCalls, up \in BOOLEAN :
          ReindexRetry(c, up) /\ UNCHANGED exceptReindex
    \/ \E c \in ReindexCalls :
          ReindexReturn(c) /\ UNCHANGED exceptReindex

SpecReindex == ReindexInit /\ [][ReindexNext]_<<idxvars, reindexvars, exceptReindex>>

\* an ingestion request with the paths it names
IngestInit ==
    /\ RLIdle
    /\ IdxIdle
    /\ HashIdle
    /\ CacheIdle
    /\ PlanIdle
    /\ QueryIdle
    /\ ReindexIdle
    /\ ChunkIdle
    /\ ingest = NoIngest
    /\ file_paths \in PathLists

IngestNext ==
    \E eup \in BOOLEAN, up \in BOOLEAN :
        IngestPaths(eup, up) /\ UNCHANGED exceptIngest

SpecIngest == IngestInit /\ [][IngestNext]_<<ingestvars, exceptIngest>>

\* a document split into sections, not yet chunked
ChunkInit ==
    /\ RLIdle
    /\ IdxIdle
    /\ HashIdle
    /\ CacheIdle
    /\ PlanIdle
    /\ QueryIdle
    /\ ReindexIdle
    /\ IngestIdle
    /\ chunked = NoChunks
    /\ sections \in SectionLists

ChunkNext ==
    \/ ChunkDocument /\ UNCHANGED exceptChunk
    \/ \E be \in Backends : IndexChunks(be) /\ UNCHANGED exceptChunk

SpecChunk == ChunkInit /\ [][ChunkNext]_<<chunkvars, exceptChunk>>

\* IndexManager.__init__ behind a CollectionManager: nothing indexed yet
DropInit ==
    /\ RLIdle
    /\ HashIdle
    /\ CacheIdle
    /\ PlanIdle
    /\ QueryIdle
    /\ ReindexIdle
    /\ IngestIdle
    /\ ChunkIdle
    /\ utc = 0
    /\ processed_hashes = {}
    /\ hash_to_doc_id = {}
    /\ store = {}
    /\ hist = <<>>
    /\ backend \in Backends

\* upserts and deletions of collections (MaxDropOps bounds their number)
DropNext ==
    \/ /\ Len(hist) < MaxDropOps
       /\ \E col \in Collections, b \in Batches, up \in BOOLEAN :
             UpsertDocumentsCall(col, b, up) /\ UNCHANGED exceptIdx
    \/ /\ Len(hist) < MaxDropOps
       /\ \E col \in Collections, up \in BOOLEAN :
             DeleteCollection(col, up) /\ UNCHANGED exceptIdx

SpecDrop == DropInit /\ [][DropNext]_<<idxvars, exceptIdx>>

====
